---------------------------- MODULE Spec2Model ----------------------------
(***************************************************************************)
(* Model of the merge pipeline of runpod-gpu-suite:                        *)
(*   services/download_service.py  DownloadService.download_from_url       *)
(*   services/merge_service.py     MergeService (validate, download_clips, *)
(*                                 scale, overlay, merge, orchestrator)    *)
(*   services/ffmpeg_service.py    the external ffmpeg / ffprobe runs      *)
(*                                                                         *)
(* Files of the temp directory are records [kind, i]: every path the code  *)
(* builds carries a fresh uuid4, so two paths are equal only when they are *)
(* the same artifact of the same clip.                                     *)
(***************************************************************************)
EXTENDS Integers, Sequences, FiniteSets, TLC

\* ------------------------------------------------------------------ bounds
MaxClips == 2        \* longest clip list whose contents are enumerated freely
MaxDuration == 2     \* largest probed duration of the first clip, in seconds
MaxFileSize == 2     \* value given to the MAX_FILE_SIZE setting, in size units
MaxChunk == 2        \* value given to chunk_size, in size units
MaxMissing == 1      \* most slot keys a request's image mapping leaves out
MaxOriginal == 3     \* longest original duration given to trim_video, in double ticks
MaxSide == 2         \* largest width and height of a clip, in size steps
MaxRuns == 2         \* how many times scale_video is applied in a row
MaxFadeStep == 1     \* fade-in lengths above the minimum, in tenths of a second
MaxWrapLen == 4      \* characters of a text handed to the wrap function
MaxTextLen == 2      \* characters of a text a job hands to the renderer
MaxVideoTicks == 10  \* duration of a video handed to the uniqueness transform
TicksPerSecond == 2  \* resolution of the times the renderer evaluates at
MaxJobs == 6         \* jobs that use the database, one after the other

\* ------------------------------------------------------- program constants
MAX_FILE_SIZE == MaxFileSize \* Config.MAX_FILE_SIZE (read from the environment)
chunk_size == MaxChunk       \* largest chunk iter_chunked hands over
MAX_MERGE_CLIPS == 10        \* Config.MAX_MERGE_CLIPS
MIN_MERGE_CLIPS == 2         \* literal in validate_merge_request
MAX_TEXT_LEN == 500          \* literal in validate_merge_request
PROBE_TIMEOUT == 30          \* get_media_info: subprocess.run(timeout=30)
SCALE_TIMEOUT == 120         \* scale_video: subprocess.run(timeout=120)
OVERLAY_TIMEOUT == 120       \* add_text_overlay: subprocess.run(timeout=120)
MERGE_TIMEOUT == 600         \* Config.MERGE_TIMEOUT
NoTimeout == 0               \* an invocation that passes no timeout at all
None == -1                   \* Python None for an optional number

ALLOWED_MIME_TYPES ==
  {"image/jpeg", "image/png", "image/jpg", "video/mp4", "video/quicktime",
   "video/x-msvideo", "audio/mpeg", "application/octet-stream"}

valid_named_colors ==
  {"white", "black", "red", "green", "blue", "yellow", "cyan", "magenta",
   "orange", "purple", "pink", "gray", "grey"}

\* ---------------------------------------------------------------- inputs
\* A clip configuration as handle_merge builds it: url is TRUE when the
\* request gave a non-empty URL, text is the length of the text (0 is both
\* None and ""), overrides is the text_color of the clip's overrides ("" when
\* the clip has no overrides).
HexColors == {"#ff0000"}
TextLens == {0, 1, MAX_TEXT_LEN, MAX_TEXT_LEN + 1}
ValidateClips == [url : BOOLEAN, text : TextLens, overrides : {""}]
PipeClips == [url : BOOLEAN, text : {0, 1, MAX_TEXT_LEN + 1},
              overrides : {"", "white", "notacolor"}]
RequestedDurations == {None, 1, 2}

GoodClip == [url |-> TRUE, text |-> 1, overrides |-> ""]

\* all sequences over S of length 0..n
RECURSIVE SeqsUpTo(_, _)
SeqsUpTo(S, n) ==
  IF n = 0 THEN {<<>>}
  ELSE LET shorter == SeqsUpTo(S, n - 1)
       IN  shorter \cup {Append(s, x) : s \in {t \in shorter : Len(t) = n - 1}, x \in S}

\* n good clips, and n good clips with the one at position k replaced by c
GoodClips(n) == [k \in 1..n |-> GoodClip]
OneOdd(n, k, c) == [j \in 1..n |-> IF j = k THEN c ELSE GoodClip]

\* clip lists given to validate_merge_request: every list of up to MaxClips
\* clips, and for every length up to one past the maximum the lists with
\* at most one clip that is not a good one
ValidateInputs ==
  SeqsUpTo(ValidateClips, MaxClips)
    \cup {OneOdd(n, k, c) : n \in 1 .. MAX_MERGE_CLIPS + 1,
                            k \in 1 .. MAX_MERGE_CLIPS + 1, c \in ValidateClips}

\* clip lists of the merge jobs: every list of up to MaxClips clips, and one
\* list that is one clip too long
PipeInputs == SeqsUpTo(PipeClips, MaxClips) \cup {GoodClips(MAX_MERGE_CLIPS + 1)}

\* ------------------------------------------------------------------ state
VARIABLES
  clip_configs,          \* the job: list of clip configurations
  first_clip_duration,   \* None or the requested duration of the first clip
  pc,                    \* position of process_merge_request
  raised,                \* "" or the exception that left process_merge_request
  dl,                    \* download_from_url tasks, one per clip URL
  files,                 \* files that exist in Config.TEMP_DIR
  downloaded_clips,      \* process_merge_request.downloaded_clips (paths)
  downloaded_paths,      \* process_merge_request.downloaded_paths
  scaled_paths,          \* process_merge_request.scaled_paths
  overlayed_paths,       \* process_merge_request.overlayed_paths
  trimmed_path,          \* process_merge_request.trimmed_path
  local_paths,           \* scaled_paths / overlayed_paths local to the running stage
  i,                     \* loop index of the running stage
  proc,                  \* the external process the job is waiting for
  content,               \* what each file produced after the downloads holds
  job,                   \* the job dictionary handed to async_handler
  handler,               \* position and effects of the job handler
  result,                \* what async_handler returned or raised
  args,                  \* arguments of the function a specification applies
  ret,                   \* what that function returned
  pools                  \* the connection pools of the process to the database

vars == <<clip_configs, first_clip_duration, pc, raised, dl, files,
          downloaded_clips, downloaded_paths, scaled_paths, overlayed_paths,
          trimmed_path, local_paths, i, proc, content, job, handler, result,
          args, ret, pools>>

\* the state of the job handler and of the functions applied on their own
otherVars == <<job, handler, result, args, ret, pools>>

NoJob == [input |-> "none"]
NoHandler == [pc |-> "none"]
NoResult == [kind |-> "none"]
NoArgs == [fn |-> "none"]
NoRet == [fn |-> "none"]

\* no job was handed to async_handler and no function is applied on its own
OtherIdle ==
  /\ job = NoJob
  /\ handler = NoHandler
  /\ result = NoResult
  /\ args = NoArgs
  /\ ret = NoRet
  /\ pools = <<>>


\* ------------------------------------------------------------------ paths
Path(k, n) == [kind |-> k, i |-> n]
NoPath == Path("none", 0)
DlPath(n) == Path("dl", n)               \* TEMP_DIR/<uuid4><ext> of download n
ScaledPath(n) == Path("scaled", n)       \* TEMP_DIR/scaled_<uuid4>.mp4
OverlayedPath(n) == Path("overlayed", n) \* TEMP_DIR/overlayed_<uuid4>.mp4
OutputPath == Path("output", 0)          \* the output_path argument

\* first_clip_path.replace('.mp4', '_trimmed.mp4'), or the path with
\* '_trimmed.mp4' appended: in both cases a new name next to the original
TrimmedPathOf(p) == Path("trimmed", p.i)

RECURSIVE SeqToSet(_)
SeqToSet(s) == IF s = <<>> THEN {} ELSE {Head(s)} \cup SeqToSet(Tail(s))

\* MergeService.cleanup_file: remove the file when it exists
cleanup_file(fs, p) == fs \ {p}

\* MergeService.cleanup_files: cleanup_file on every path of the list
RECURSIVE cleanup_files(_, _)
cleanup_files(fs, paths) ==
  IF paths = <<>> THEN fs
  ELSE cleanup_files(cleanup_file(fs, Head(paths)), Tail(paths))

\* ------------------------------------------------- download_from_url tasks
NoResp == [status |-> 0, ctype |-> "", clen |-> None]
PendingTask ==
  [st |-> "pending", resp |-> NoResp, total |-> 0, written |-> 0, err |-> ""]

\* responses a server may give: status, Content-Type, Content-Length header
FullResponses ==
  [status : {200, 404},
   ctype  : {"video/mp4", "application/octet-stream", "text/html"},
   clen   : {None} \cup (0 .. MAX_FILE_SIZE + 1)]
FullChunks == 1 .. chunk_size
\* the servers of a merge job: every failure before the file is created is
\* represented by the 404, and chunks arrive full
PipeResponses == [status : {200, 404}, ctype : {"video/mp4"}, clen : {None}]
PipeChunks == {chunk_size}

\* _is_valid_content_type (the alphabet holds base types in lower case)
IsValidContentType(ct) == ct \in ALLOWED_MIME_TYPES

\* mutant: the header test lets a length of one byte over the limit through
DeclaredTooLarge_OffByOne(clen) == clen # None /\ clen > MAX_FILE_SIZE + 1

\* content_length and int(content_length) > Config.MAX_FILE_SIZE
DeclaredTooLarge(clen) == clen # None /\ clen > MAX_FILE_SIZE

\* mutant: the limit is compared with what was received before this chunk
ExceedsLimit_AfterWrite(total) == total - chunk_size > MAX_FILE_SIZE

\* total_size > Config.MAX_FILE_SIZE, tested before the chunk is written
ExceedsLimit(total) == total > MAX_FILE_SIZE

\* why the response is refused before the file is opened, "" when it is not
HeaderError(r) ==
  IF r.status # 200 THEN "http"
  ELSE IF ~IsValidContentType(r.ctype) THEN "ctype"
  ELSE IF DeclaredTooLarge(r.clen) THEN "too_large"
  ELSE ""

\* session.get() answered: the three header checks, then open(file_path, 'wb')
DlRespond(n, Responses) ==
  /\ n \in DOMAIN dl
  /\ dl[n].st = "pending"
  /\ \E r \in Responses :
       IF HeaderError(r) # ""
       THEN /\ dl' = [dl EXCEPT ![n] = [@ EXCEPT !.st = "failed", !.resp = r,
                                                  !.err = HeaderError(r)]]
            /\ files' = files
       ELSE /\ dl' = [dl EXCEPT ![n] = [@ EXCEPT !.st = "streaming", !.resp = r]]
            /\ files' = files \cup {DlPath(n)}

\* one iteration of the iter_chunked loop
DlChunk(n, Chunks) ==
  /\ n \in DOMAIN dl
  /\ dl[n].st = "streaming"
  /\ \E len \in Chunks :
       LET total == dl[n].total + len IN
       IF ExceedsLimit(total)
       THEN /\ dl' = [dl EXCEPT ![n] = [@ EXCEPT !.st = "failed", !.total = total,
                                                  !.err = "exceeds"]]
            /\ files' = files \ {DlPath(n)}
       ELSE /\ dl' = [dl EXCEPT ![n] = [@ EXCEPT !.total = total,
                                                  !.written = @ + len]]
            /\ files' = files

\* the body ended: the file is closed and (file_path, content_type) returned
DlEof(n) ==
  /\ n \in DOMAIN dl
  /\ dl[n].st = "streaming"
  /\ dl' = [dl EXCEPT ![n] = [@ EXCEPT !.st = "ok"]]
  /\ files' = files

\* asyncio.TimeoutError or aiohttp.ClientError, while waiting for the
\* response or for the next chunk: converted and raised, nothing removed
DlAbort(n) ==
  /\ n \in DOMAIN dl
  /\ dl[n].st \in {"pending", "streaming"}
  /\ \E kind \in {"timeout", "network"} :
       dl' = [dl EXCEPT ![n] = [@ EXCEPT !.st = "failed", !.err = kind]]
  /\ files' = files

jobVars == <<clip_configs, first_clip_duration, pc, raised, downloaded_clips,
             downloaded_paths, scaled_paths, overlayed_paths, trimmed_path,
             local_paths, i, proc, content, otherVars>>

NoProc == [kind |-> "none", timeout |-> NoTimeout, out |-> NoPath, overrides |-> ""]

\* --------------------------------------------------- validate_merge_request
\* mutant: a text of exactly the maximum length is refused
TextTooLong_Inclusive(len) == len >= MAX_TEXT_LEN

TooFewClips(num_clips) == num_clips < MIN_MERGE_CLIPS
TooManyClips(num_clips) == num_clips > MAX_MERGE_CLIPS
TextTooLong(len) == len > MAX_TEXT_LEN

\* the per-clip loop, from clip k on: the first complaint, "" when none
RECURSIVE validate_clips(_, _)
validate_clips(cfgs, k) ==
  IF k > Len(cfgs) THEN ""
  ELSE IF ~cfgs[k].url THEN "URL is required"
  ELSE IF cfgs[k].text = 0 THEN "Text is required"
  ELSE IF TextTooLong(cfgs[k].text) THEN "Text too long"
  ELSE validate_clips(cfgs, k + 1)

\* the ValueError validate_merge_request raises, "" when it returns
validate_merge_request(cfgs) ==
  IF TooFewClips(Len(cfgs)) THEN "At least 2 clips are required"
  ELSE IF TooManyClips(Len(cfgs)) THEN "Maximum clips exceeded"
  ELSE validate_clips(cfgs, 1)

\* TextOverrideOptions.validate_color on a lower-case colour
validate_color(c) == c \in valid_named_colors \/ c \in HexColors

\* TextOverrideOptions(**config['overrides']) raises
OverridesRejected(o) == o # "" /\ ~validate_color(o)

\* the overrides apply_overlays_to_clips passes on: those that do not parse
\* are logged and replaced by None
ParsedOverrides(o) == IF OverridesRejected(o) THEN "" ELSE o

\* ---------------------------------------------------- process_merge_request
\* an external run: what it is, its timeout, its output path and, for an
\* overlay, the overrides its filter was built with
Proc(k, t, o) == [kind |-> k, timeout |-> t, out |-> o, overrides |-> ""]

\* mutant: the except block forgets the scaled clips
ExceptCleanup_SkipScaled(fs, dpaths, spaths, opaths) ==
  cleanup_files(cleanup_files(fs, dpaths), opaths)

\* the except block of process_merge_request: the three cleanup_files calls
ExceptCleanup(fs, dpaths, spaths, opaths) ==
  cleanup_files(cleanup_files(cleanup_files(fs, dpaths), spaths), opaths)

\* an exception reaches the except block with the temp directory holding fs:
\* cleanup, then the exception is raised again
Fail(fs, exc) ==
  /\ pc' = "failed"
  /\ raised' = exc
  /\ files' = ExceptCleanup(fs, downloaded_paths, scaled_paths, overlayed_paths)
  /\ proc' = NoProc
  /\ UNCHANGED <<otherVars, content,
                 clip_configs, first_clip_duration, dl, downloaded_clips,
                 downloaded_paths, scaled_paths, overlayed_paths, trimmed_path,
                 local_paths, i>>

\* an exception inside scale_clips_to_target or apply_overlays_to_clips: the
\* stage removes the outputs it had appended to its own list and raises
StageFail(fs, exc) == Fail(cleanup_files(fs, local_paths), exc)

\* what a failed or killed external run leaves at its output path
AfterFailedRun(leaves) == IF leaves THEN files \cup {proc.out} ELSE files

\* Step 1, then download_clips creates one download task per clip
Validate ==
  /\ pc = "validate"
  /\ IF validate_merge_request(clip_configs) # ""
     THEN Fail(files, validate_merge_request(clip_configs))
     ELSE /\ pc' = "download"
          /\ dl' = [n \in 1 .. Len(clip_configs) |-> PendingTask]
          /\ UNCHANGED <<otherVars, content,
                         clip_configs, first_clip_duration, raised, files,
                         downloaded_clips, downloaded_paths, scaled_paths,
                         overlayed_paths, trimmed_path, local_paths, i, proc>>

\* mutant: the wait ends with the first download that has returned
GatherDone_Any == \E n \in DOMAIN dl : dl[n].st = "ok"

\* await asyncio.gather(*download_tasks) returns once every task has returned
GatherDone == \A n \in DOMAIN dl : dl[n].st = "ok"
\* ... and raises the first exception as soon as one task has raised
GatherFailed == \E n \in DOMAIN dl : dl[n].st = "failed"

\* a video clip: the URL it was downloaded from (position in the request)
\* and the clip configuration whose text was drawn on it (0: none yet)
Clip(u, t) == [url |-> u, text |-> t]

\* mutant: the results come back in the opposite order
GatherResults_Reversed == [n \in DOMAIN dl |-> DlPath(Len(dl) + 1 - n)]

\* the list asyncio.gather returns: the result of the n-th awaitable at
\* position n, whatever the order of completion
GatherResults == [n \in DOMAIN dl |-> DlPath(n)]

\* Step 2 succeeded; Step 2.5 decides whether the first clip is to be trimmed.
\* Task n was created for clip_urls[n], so its file holds the video of URL n
GatherReturn ==
  /\ pc = "download"
  /\ GatherDone
  /\ downloaded_clips' = GatherResults
  /\ downloaded_paths' = GatherResults
  /\ content' = [p \in {DlPath(n) : n \in DOMAIN dl} |-> <<Clip(p.i, 0)>>]
  /\ IF first_clip_duration # None /\ Len(dl) > 0
     THEN pc' = "trim" /\ trimmed_path' = TrimmedPathOf(GatherResults[1])
     ELSE pc' = "scale" /\ trimmed_path' = trimmed_path
  /\ UNCHANGED <<otherVars,
                 clip_configs, first_clip_duration, raised, dl, files,
                 scaled_paths, overlayed_paths, local_paths, i, proc>>

\* Step 2 failed: download_clips wraps the exception, downloaded_paths is
\* still the empty list, the other tasks keep running
GatherRaise ==
  /\ pc = "download"
  /\ GatherFailed
  /\ Fail(files, "Clip download failed")

\* trim_video: get_media_info starts ffprobe
TrimProbe ==
  /\ pc = "trim" /\ proc = NoProc
  /\ proc' = Proc("ffprobe", PROBE_TIMEOUT, NoPath)
  /\ UNCHANGED <<otherVars, content,
                 clip_configs, first_clip_duration, pc, raised, dl, files,
                 downloaded_clips, downloaded_paths, scaled_paths,
                 overlayed_paths, trimmed_path, local_paths, i>>

\* ffprobe ended.  d = None: it failed, get_media_info returned {} and
\* media_info['format'] raises.  Otherwise d is the original duration:
\* nothing to do when the target is not shorter, else ffmpeg is started with
\* create_subprocess_exec and awaited with communicate()
TrimProbed ==
  /\ pc = "trim" /\ proc.kind = "ffprobe"
  /\ \E d \in {None} \cup (1 .. MaxDuration) :
       IF d = None THEN Fail(files, "KeyError")
       ELSE IF first_clip_duration >= d
       THEN /\ pc' = "scale"
            /\ trimmed_path' = NoPath
            /\ proc' = NoProc
            /\ UNCHANGED <<otherVars, content,
                           clip_configs, first_clip_duration, raised, dl, files,
                           downloaded_clips, downloaded_paths, scaled_paths,
                           overlayed_paths, local_paths, i>>
       ELSE /\ proc' = Proc("trim", NoTimeout, trimmed_path)
            /\ UNCHANGED <<otherVars, content,
                           clip_configs, first_clip_duration, pc, raised, dl,
                           files, downloaded_clips, downloaded_paths,
                           scaled_paths, overlayed_paths, trimmed_path,
                           local_paths, i>>

\* the trim ffmpeg exited: with 0 the trimmed file replaces the first clip and
\* the original is removed; otherwise RuntimeError
TrimExit ==
  /\ pc = "trim" /\ proc.kind = "trim"
  /\ \/ /\ files' = cleanup_file(files \cup {trimmed_path}, downloaded_clips[1])
        /\ downloaded_clips' = [downloaded_clips EXCEPT ![1] = trimmed_path]
        /\ downloaded_paths' = [downloaded_paths EXCEPT ![1] = trimmed_path]
        /\ pc' = "scale"
        /\ proc' = NoProc
        /\ content' = (trimmed_path :> content[downloaded_clips[1]]) @@ content
        /\ UNCHANGED <<otherVars,
                       clip_configs, first_clip_duration, raised, dl,
                       scaled_paths, overlayed_paths, trimmed_path,
                       local_paths, i>>
     \/ \E leaves \in BOOLEAN : Fail(AfterFailedRun(leaves), "RuntimeError")

\* scale_clips_to_target: the first clip is probed for the target resolution
ScaleProbe ==
  /\ pc = "scale" /\ proc = NoProc /\ i = 0
  /\ IF downloaded_clips = <<>>
     THEN Fail(files, "No clips to scale")
     ELSE IF downloaded_clips[1] \notin files
     THEN StageFail(files, "Clip scaling failed")
     ELSE /\ proc' = Proc("ffprobe", PROBE_TIMEOUT, NoPath)
          /\ UNCHANGED <<otherVars, content,
                         clip_configs, first_clip_duration, pc, raised, dl,
                         files, downloaded_clips, downloaded_paths,
                         scaled_paths, overlayed_paths, trimmed_path,
                         local_paths, i>>

\* the probe gave a resolution, or nothing usable (ValueError)
ScaleProbed ==
  /\ pc = "scale" /\ proc.kind = "ffprobe"
  /\ \/ /\ i' = 1
        /\ proc' = NoProc
        /\ UNCHANGED <<otherVars, content,
                       clip_configs, first_clip_duration, pc, raised, dl,
                       files, downloaded_clips, downloaded_paths, scaled_paths,
                       overlayed_paths, trimmed_path, local_paths>>
     \/ StageFail(files, "Clip scaling failed")

\* the loop of scale_clips_to_target has appended the output of clip i, the
\* temp directory holding fs: next clip, or return and Step 4
ScaledOne(fs) ==
  /\ proc' = NoProc
  /\ content' = (ScaledPath(i) :> content[downloaded_clips[i]]) @@ content
  /\ IF i < Len(downloaded_clips)
     THEN /\ local_paths' = Append(local_paths, ScaledPath(i))
          /\ i' = i + 1
          /\ files' = fs
          /\ UNCHANGED <<pc, scaled_paths, downloaded_paths>>
     ELSE /\ scaled_paths' = Append(local_paths, ScaledPath(i))
          /\ files' = cleanup_files(fs, downloaded_paths)
          /\ downloaded_paths' = <<>>
          /\ local_paths' = <<>>
          /\ i' = 1
          /\ pc' = "overlay"
  /\ UNCHANGED <<otherVars,
                 clip_configs, first_clip_duration, raised, dl,
                 downloaded_clips, overlayed_paths, trimmed_path>>

\* scale_video on clip i: a clip already at the target size is copied,
\* any other one is handed to ffmpeg
ScaleStart ==
  /\ pc = "scale" /\ proc = NoProc /\ i \in 1 .. Len(downloaded_clips)
  /\ IF downloaded_clips[i] \notin files
     THEN StageFail(files, "Clip scaling failed")
     ELSE \/ ScaledOne(files \cup {ScaledPath(i)})
          \/ /\ proc' = Proc("scale", SCALE_TIMEOUT, ScaledPath(i))
             /\ UNCHANGED <<otherVars, content,
                            clip_configs, first_clip_duration, pc, raised, dl,
                            files, downloaded_clips, downloaded_paths,
                            scaled_paths, overlayed_paths, trimmed_path,
                            local_paths, i>>

\* the scale ffmpeg exited: 0 with the output present, or a failure
ScaleExit ==
  /\ pc = "scale" /\ proc.kind = "scale"
  /\ \/ ScaledOne(files \cup {proc.out})
     \/ \E leaves \in BOOLEAN :
          StageFail(AfterFailedRun(leaves), "Clip scaling failed")

\* apply_overlays_to_clips on clip i: overrides that do not parse are
\* dropped with a warning, then add_text_overlay starts ffmpeg
OverlayStart ==
  /\ pc = "overlay" /\ proc = NoProc /\ i \in 1 .. Len(clip_configs)
  /\ proc' = [Proc("overlay", OVERLAY_TIMEOUT, OverlayedPath(i)) EXCEPT
                !.overrides = ParsedOverrides(clip_configs[i].overrides)]
  /\ UNCHANGED <<otherVars, content,
                 clip_configs, first_clip_duration, pc, raised, dl, files,
                 downloaded_clips, downloaded_paths, scaled_paths,
                 overlayed_paths, trimmed_path, local_paths, i>>

\* the overlay ffmpeg exited, and the scaled clips are removed after every
\* clip instead of after the last one
OverlayExit_EagerCleanup ==
  /\ pc = "overlay" /\ proc.kind = "overlay"
  /\ \/ /\ proc' = NoProc
        /\ content' =
             (proc.out :> <<Clip(content[scaled_paths[i]][1].url, i)>>) @@ content
        /\ files' = cleanup_files(files \cup {proc.out}, scaled_paths)
        /\ IF i < Len(clip_configs)
           THEN /\ local_paths' = Append(local_paths, proc.out)
                /\ i' = i + 1
                /\ UNCHANGED <<pc, scaled_paths, overlayed_paths>>
           ELSE /\ overlayed_paths' = Append(local_paths, proc.out)
                /\ scaled_paths' = <<>>
                /\ local_paths' = <<>>
                /\ i' = 0
                /\ pc' = "merge"
        /\ UNCHANGED <<otherVars,
                       clip_configs, first_clip_duration, raised, dl,
                       downloaded_clips, downloaded_paths, trimmed_path>>
     \/ \E leaves \in BOOLEAN :
          StageFail(AfterFailedRun(leaves), "Overlay processing failed")

\* the overlay ffmpeg exited: next clip, or return and Step 6
OverlayExit ==
  /\ pc = "overlay" /\ proc.kind = "overlay"
  /\ \/ /\ proc' = NoProc
        /\ content' =
             (proc.out :> <<Clip(content[scaled_paths[i]][1].url, i)>>) @@ content
        /\ IF i < Len(clip_configs)
           THEN /\ local_paths' = Append(local_paths, proc.out)
                /\ i' = i + 1
                /\ files' = files \cup {proc.out}
                /\ UNCHANGED <<pc, scaled_paths, overlayed_paths>>
           ELSE /\ overlayed_paths' = Append(local_paths, proc.out)
                /\ files' = cleanup_files(files \cup {proc.out}, scaled_paths)
                /\ scaled_paths' = <<>>
                /\ local_paths' = <<>>
                /\ i' = 0
                /\ pc' = "merge"
        /\ UNCHANGED <<otherVars,
                       clip_configs, first_clip_duration, raised, dl,
                       downloaded_clips, downloaded_paths, trimmed_path>>
     \/ \E leaves \in BOOLEAN :
          StageFail(AfterFailedRun(leaves), "Overlay processing failed")

\* the concat filter of merge_videos: the inputs one after the other, in the
\* order of input_paths
RECURSIVE ConcatContent(_)
ConcatContent(paths) ==
  IF paths = <<>> THEN <<>>
  ELSE content[Head(paths)] \o ConcatContent(Tail(paths))

\* merge_clips: merge_videos checks its inputs and starts ffmpeg
MergeStart ==
  /\ pc = "merge" /\ proc = NoProc
  /\ IF Len(overlayed_paths) < 2 \/ ~(SeqToSet(overlayed_paths) \subseteq files)
     THEN Fail(files, "Video merge failed")
     ELSE /\ proc' = Proc("merge", MERGE_TIMEOUT, OutputPath)
          /\ UNCHANGED <<otherVars, content,
                         clip_configs, first_clip_duration, pc, raised, dl,
                         files, downloaded_clips, downloaded_paths,
                         scaled_paths, overlayed_paths, trimmed_path,
                         local_paths, i>>

\* the merge ffmpeg exited: Step 8 and the result, or a failure
MergeExit ==
  /\ pc = "merge" /\ proc.kind = "merge"
  /\ \/ /\ files' = cleanup_files(files \cup {OutputPath}, overlayed_paths)
        /\ overlayed_paths' = <<>>
        /\ pc' = "done"
        /\ proc' = NoProc
        /\ content' = (OutputPath :> ConcatContent(overlayed_paths)) @@ content
        /\ UNCHANGED <<otherVars,
                       clip_configs, first_clip_duration, raised, dl,
                       downloaded_clips, downloaded_paths, scaled_paths,
                       trimmed_path, local_paths, i>>
     \/ \E leaves \in BOOLEAN :
          Fail(AfterFailedRun(leaves), "Video merge failed")

\* subprocess.run(timeout=...) killed the process: get_media_info returns {},
\* the renderers raise "timed out"
ProcTimeout ==
  /\ proc.kind # "none" /\ proc.timeout # NoTimeout
  /\ \E leaves \in BOOLEAN :
       IF pc = "trim" THEN Fail(files, "KeyError")
       ELSE IF pc = "scale" THEN StageFail(AfterFailedRun(leaves), "Clip scaling failed")
       ELSE IF pc = "overlay" THEN StageFail(AfterFailedRun(leaves), "Overlay processing failed")
       ELSE Fail(AfterFailedRun(leaves), "Video merge failed")

\* a download task of the job takes a step
Download ==
  \E n \in DOMAIN dl :
    /\ \/ DlRespond(n, PipeResponses)
       \/ DlChunk(n, PipeChunks)
       \/ DlEof(n)
       \/ DlAbort(n)
    /\ UNCHANGED jobVars

Init ==
  /\ clip_configs \in PipeInputs
  /\ first_clip_duration \in RequestedDurations
  /\ pc = "validate"
  /\ raised = ""
  /\ dl = <<>>
  /\ files = {}
  /\ downloaded_clips = <<>>
  /\ downloaded_paths = <<>>
  /\ scaled_paths = <<>>
  /\ overlayed_paths = <<>>
  /\ trimmed_path = NoPath
  /\ local_paths = <<>>
  /\ i = 0
  /\ proc = NoProc
  /\ content = <<>>
  /\ OtherIdle

Next ==
  \/ Validate
  \/ Download
  \/ GatherReturn
  \/ GatherRaise
  \/ TrimProbe
  \/ TrimProbed
  \/ TrimExit
  \/ ScaleProbe
  \/ ScaleProbed
  \/ ScaleStart
  \/ ScaleExit
  \/ OverlayStart
  \/ OverlayExit
  \/ MergeStart
  \/ MergeExit
  \/ ProcTimeout

Spec == Init /\ [][Next]_vars

\* validate_merge_request on its own, on the wider set of clip lists
InitValidate ==
  /\ clip_configs \in ValidateInputs
  /\ first_clip_duration = None
  /\ pc = "validate"
  /\ raised = ""
  /\ dl = <<>>
  /\ files = {}
  /\ downloaded_clips = <<>>
  /\ downloaded_paths = <<>>
  /\ scaled_paths = <<>>
  /\ overlayed_paths = <<>>
  /\ trimmed_path = NoPath
  /\ local_paths = <<>>
  /\ i = 0
  /\ proc = NoProc
  /\ content = <<>>
  /\ OtherIdle

NextValidate == Validate

SpecValidate == InitValidate /\ [][NextValidate]_vars

\* one download_from_url call on its own (as the single-overlay job makes it)
InitDownload ==
  /\ clip_configs = <<>>
  /\ first_clip_duration = None
  /\ pc = "standalone"
  /\ raised = ""
  /\ dl = <<PendingTask>>
  /\ files = {}
  /\ downloaded_clips = <<>>
  /\ downloaded_paths = <<>>
  /\ scaled_paths = <<>>
  /\ overlayed_paths = <<>>
  /\ trimmed_path = NoPath
  /\ local_paths = <<>>
  /\ i = 0
  /\ proc = NoProc
  /\ content = <<>>
  /\ OtherIdle

NextDownload ==
  \/ DlRespond(1, FullResponses) /\ UNCHANGED jobVars
  \/ DlChunk(1, FullChunks) /\ UNCHANGED jobVars
  \/ DlEof(1) /\ UNCHANGED jobVars
  \/ DlAbort(1) /\ UNCHANGED jobVars

SpecDownload == InitDownload /\ [][NextDownload]_vars


\* ------------------------------------------------ keyed collage requests
\* POVTemplateRequest, OutfitSingleRequest and FitpicRequest: the images
\* field is a mapping from slot key to URL.  A mapping is given by its key
\* set; its values are URLs.
Layouts == {"pov", "outfit-single", "fitpic"}

\* the set `required` of each validate_image_keys
RequiredKeys(layout) ==
  CASE layout = "pov" ->
         {"cap", "flag", "landscape", "shirt", "watch", "pants", "shoes", "car"}
    [] layout = "outfit-single" ->
         {"hat", "hoodie", "extra", "meme", "pants", "shoes"}
    [] layout = "fitpic" ->
         {"npc_logo", "brand_logo", "hoodie", "hat", "meme", "shoes", "pants"}

\* mutant: the images field is declared Dict[str, HttpUrl]
LiteralKeys_AnyString(layout) ==
  RequiredKeys("pov") \cup RequiredKeys("outfit-single")
    \cup RequiredKeys("fitpic") \cup {"logo"}

\* the keys the annotation Dict[Literal[...], HttpUrl] of the field admits
LiteralKeys(layout) ==
  CASE layout = "pov" ->
         {"cap", "flag", "landscape", "shirt", "watch", "pants", "shoes", "car"}
    [] layout = "outfit-single" ->
         {"hat", "hoodie", "extra", "meme", "pants", "shoes"}
    [] layout = "fitpic" ->
         {"npc_logo", "brand_logo", "hoodie", "hat", "meme", "shoes", "pants"}

\* INPUT_ORDER of the layout's service: one download task per entry
INPUT_ORDER(layout) ==
  CASE layout = "pov" ->
         <<"cap", "flag", "landscape", "shirt", "watch", "pants", "shoes", "car">>
    [] layout = "outfit-single" ->
         <<"hat", "hoodie", "extra", "meme", "pants", "shoes">>
    [] layout = "fitpic" ->
         <<"npc_logo", "brand_logo", "hoodie", "hat", "meme", "shoes", "pants">>

\* validate_image_keys, run on a mapping that passed the annotation: the
\* ValueError it raises, "" when it returns the mapping.  The fitpic one
\* looks for missing keys only
validate_image_keys(layout, keys) ==
  IF RequiredKeys(layout) \ keys # {} THEN "Missing image slots"
  ELSE IF layout # "fitpic" /\ keys \ RequiredKeys(layout) # {}
  THEN "Unknown image slots"
  ELSE ""

\* validation of the images field: the key type of the annotation first,
\* the field validator after it
ImagesError(layout, keys) ==
  IF ~(keys \subseteq LiteralKeys(layout)) THEN "literal_error"
  ELSE validate_image_keys(layout, keys)

\* key sets of the requests: the required set with up to MaxMissing keys
\* left out, and any of two keys the layout does not have put in
ExtraKeys(layout) ==
  {"logo", CASE layout = "pov" -> "hat"
             [] layout = "outfit-single" -> "cap"
             [] layout = "fitpic" -> "extra"}
ImageKeySets(layout) ==
  {(RequiredKeys(layout) \ M) \cup E :
     M \in {m \in SUBSET RequiredKeys(layout) : Cardinality(m) <= MaxMissing},
     E \in SUBSET ExtraKeys(layout)}

\* the request object is built from the input: pydantic raises
\* ValidationError, or the request exists
BuildRequest ==
  /\ args.fn = "keyed" /\ ret = NoRet
  /\ ret' = [fn |-> "keyed", error |-> ImagesError(args.layout, args.images)]
  /\ UNCHANGED <<clip_configs, first_clip_duration, pc, raised, dl, files,
                 downloaded_clips, downloaded_paths, scaled_paths,
                 overlayed_paths, trimmed_path, local_paths, i, proc, content,
                 job, handler, result, args, pools>>

\* create_pov_video, create_outfit_single_video, create_fitpic_image: called
\* with the request object, they create one download task per slot
CreateCollage ==
  /\ args.fn = "keyed" /\ ret # NoRet /\ ret.error = "" /\ dl = <<>>
  /\ dl' = [n \in 1 .. Len(INPUT_ORDER(args.layout)) |-> PendingTask]
  /\ UNCHANGED <<clip_configs, first_clip_duration, pc, raised, files,
                 downloaded_clips, downloaded_paths, scaled_paths,
                 overlayed_paths, trimmed_path, local_paths, i, proc, content,
                 otherVars>>

\* the pipeline is not running
PipelineIdle ==
  /\ clip_configs = <<>>
  /\ first_clip_duration = None
  /\ pc = "none"
  /\ raised = ""
  /\ dl = <<>>
  /\ files = {}
  /\ downloaded_clips = <<>>
  /\ downloaded_paths = <<>>
  /\ scaled_paths = <<>>
  /\ overlayed_paths = <<>>
  /\ trimmed_path = NoPath
  /\ local_paths = <<>>
  /\ i = 0
  /\ proc = NoProc
  /\ content = <<>>

InitKeyed ==
  /\ PipelineIdle
  /\ job = NoJob /\ handler = NoHandler /\ result = NoResult /\ pools = <<>>
  /\ \E layout \in Layouts :
       args \in [fn : {"keyed"}, layout : {layout}, images : ImageKeySets(layout)]
  /\ ret = NoRet

NextKeyed ==
  \/ BuildRequest
  \/ CreateCollage

SpecKeyed == InitKeyed /\ [][NextKeyed]_vars

\* ------------------------------------------------------------ async_handler
\* the actions async_handler routes
MediaActions == {"outfit", "outfit-single", "pov", "merge", "overlay", "rembg"}
TemplateActions ==
  {"templates", "template_get", "template_create", "template_update",
   "template_delete", "template_duplicate"}
ParsedActions == {"outfit", "outfit-single", "pov"}

\* job dictionaries: job["input"] is absent, null, or a dictionary with an
\* action, an images mapping (key set) and the other fields of the request,
\* which parse or do not
JobImages(action) ==
  IF action \in {"pov", "outfit-single"}
  THEN {RequiredKeys(action), RequiredKeys(action) \cup {"logo"},
        RequiredKeys(action) \ {"shoes"}}
  ELSE {{}}
Jobs ==
  [input : {"missing", "null"}, action : {""}, images : {{}}, fields_ok : {TRUE}]
    \cup UNION {[input : {"dict"}, action : {a}, images : JobImages(a),
                 fields_ok : BOOLEAN] :
                  a \in MediaActions \cup TemplateActions
                          \cup {"health", "fitpic", ""}}

\* result dictionaries, by the keys that matter: "absent" is a missing key
Returned(st, msg, err, url) ==
  [kind |-> "returned", status |-> st, message |-> msg, error |-> err,
   download_url |-> url]
\* return {"error": str(e)}
ErrorResult(cause) == Returned("absent", "absent", cause, "absent")
\* return {"status": "success", "message": ..., "download_url": r2_url, ...}
SuccessResult(r2_url) == Returned("success", "created", "absent", r2_url)
\* an exception left async_handler
Raised(exc) ==
  [kind |-> "raised", status |-> "absent", message |-> "absent",
   error |-> exc, download_url |-> "absent"]

\* the handler ends with this result
Return(res) ==
  /\ result' = res
  /\ handler' = [handler EXCEPT !.pc = "end"]

HandlerFrame ==
  UNCHANGED <<clip_configs, first_clip_duration, pc, raised, dl, files,
              downloaded_clips, downloaded_paths, scaled_paths,
              overlayed_paths, trimmed_path, local_paths, i, proc, content,
              job, args, ret, pools>>

\* job.get("input", {}) and job_input.get("action", "") come before the try
\* block; inside it the action is routed
AsyncHandler ==
  /\ handler.pc = "start"
  /\ IF job.input = "null" THEN Return(Raised("AttributeError"))
     ELSE IF job.action \in MediaActions
     THEN handler' = [handler EXCEPT !.pc = "parse"] /\ result' = result
     ELSE IF job.action \in TemplateActions
     THEN handler' = [handler EXCEPT !.pc = "template"] /\ result' = result
     ELSE IF job.action = "health"
     THEN handler' = [handler EXCEPT !.pc = "health"] /\ result' = result
     ELSE Return(ErrorResult("Unknown action"))
  /\ HandlerFrame

\* the request model built by handle_outfit, handle_outfit_single and
\* handle_pov raises ValidationError
ParseError ==
  /\ job.action \in ParsedActions
  /\ \/ ~job.fields_ok
     \/ job.action \in Layouts /\ ImagesError(job.action, job.images) # ""

\* a media handler starts: the schema import (outside the handler's try, so
\* caught by async_handler), then the request is parsed or read with .get
ParseRequest ==
  /\ handler.pc = "parse"
  /\ \/ job.action \in ParsedActions /\ Return(ErrorResult("ImportError"))
     \/ IF ParseError THEN Return(ErrorResult("ValidationError"))
        ELSE handler' = [handler EXCEPT !.pc = "service"] /\ result' = result
  /\ HandlerFrame

\* the service call: it raises before any download (a merge request that
\* does not validate, an overlay without URL), raises after the downloads
\* were started, or returns with the output file written
RunService ==
  /\ handler.pc = "service"
  /\ \/ /\ job.action \in {"merge", "overlay", "rembg"}
        /\ Return(ErrorResult("ValueError"))
     \/ /\ result' = ErrorResult("Exception")
        /\ handler' = [handler EXCEPT !.pc = "end", !.downloads = TRUE]
     \/ /\ result' = result
        /\ handler' = [handler EXCEPT !.pc = "upload", !.downloads = TRUE,
                                       !.output = TRUE]
  /\ HandlerFrame

\* StorageService.upload_file: None when the upload raised, else the URL
upload_file(ok) == IF ok THEN "url" ELSE "None"

\* the storage step of a media handler: disabled storage is an error; else
\* whatever upload_file returned is put into the success result, and the
\* local output is removed
Upload ==
  /\ handler.pc = "upload"
  /\ IF ~handler.r2_enabled
     THEN Return(ErrorResult("R2 storage not enabled"))
     ELSE \E ok \in BOOLEAN :
            /\ result' = SuccessResult(upload_file(ok))
            /\ handler' = [handler EXCEPT !.pc = "end", !.uploaded = ok,
                                           !.output = FALSE]
  /\ HandlerFrame

\* the template handlers: the template, or {"error": ...} when it is not
\* found or the service raised
TemplateOp ==
  /\ handler.pc = "template"
  /\ \/ Return(Returned("success", "absent", "absent", "absent"))
     \/ \E cause \in {"not found", "ValueError", "Exception"} :
          Return(ErrorResult(cause))
  /\ HandlerFrame

\* handle_health
Health ==
  /\ handler.pc = "health"
  /\ \/ \E st \in {"healthy", "unhealthy"} :
          Return(Returned(st, "absent", "absent", "absent"))
     \/ Return(Returned("unhealthy", "absent", "Exception", "absent"))
  /\ HandlerFrame

InitHandler ==
  /\ PipelineIdle
  /\ args = NoArgs /\ ret = NoRet /\ pools = <<>>
  /\ job \in Jobs
  /\ handler \in [pc : {"start"}, r2_enabled : BOOLEAN, downloads : {FALSE},
                   output : {FALSE}, uploaded : {FALSE}]
  /\ result = NoResult

NextHandler ==
  \/ AsyncHandler
  \/ ParseRequest
  \/ RunService
  \/ Upload
  \/ TemplateOp
  \/ Health

SpecHandler == InitHandler /\ [][NextHandler]_vars

\* --------------------------------------------------------------- trim_video
\* Durations and times are counted in ticks, the inputs being even numbers
\* of ticks, so that the halves trim_video computes are whole ticks.
TrimModes == {"start", "end", "both"}
OriginalDurations == {2 * k : k \in 1 .. MaxOriginal}
\* first_clip_duration is taken from the job input as it is
TargetDurations == {2 * k : k \in -1 .. MaxOriginal + 1}

\* mutant: a target equal to the original duration is trimmed
NoTrimNeeded_Strict(target_duration, original_duration) ==
  target_duration > original_duration

\* if target_duration >= original_duration: nothing to trim
NoTrimNeeded(target_duration, original_duration) ==
  target_duration >= original_duration

\* trim_video up to the point where ffmpeg is started: the dictionary it
\* returns (at once when nothing is trimmed, after ffmpeg exited with 0
\* otherwise) and the -ss and -to arguments of the command
trim_video(target_duration, original_duration, trim_mode) ==
  IF NoTrimNeeded(target_duration, original_duration)
  THEN [fn |-> "trim_video", trimmed |-> FALSE, duration |-> original_duration,
        original_duration |-> original_duration, invoked |-> FALSE,
        start_time |-> 0, end_time |-> 0]
  ELSE LET trim_total == original_duration - target_duration
           start_time == CASE trim_mode = "start" -> trim_total
                           [] trim_mode = "end" -> 0
                           [] OTHER -> trim_total \div 2
           end_time == CASE trim_mode = "start" -> original_duration
                         [] trim_mode = "end" -> target_duration
                         [] OTHER -> original_duration - (trim_total \div 2)
       IN  [fn |-> "trim_video", trimmed |-> TRUE, duration |-> target_duration,
            original_duration |-> original_duration, invoked |-> TRUE,
            start_time |-> start_time, end_time |-> end_time]

\* Step 2.5 of process_merge_request with the probe of trim_video giving
\* args.original_duration (None: the probe failed and media_info['format']
\* raises): either trim_video returns at once and the unused trimmed_path
\* is dropped, or ffmpeg is started on the computed range
TrimVideo ==
  /\ pc = "trim" /\ args.fn = "trim_video" /\ ret = NoRet /\ proc = NoProc
  /\ IF args.original_duration = None
     THEN Fail(files, "KeyError")
     ELSE LET r == trim_video(first_clip_duration, args.original_duration,
                              args.trim_mode)
          IN  /\ ret' = r
              /\ IF r.invoked
                 THEN /\ proc' = Proc("trim", NoTimeout, trimmed_path)
                      /\ UNCHANGED <<pc, trimmed_path>>
                 ELSE /\ proc' = NoProc
                      /\ pc' = "scale"
                      /\ trimmed_path' = NoPath
              /\ UNCHANGED <<clip_configs, first_clip_duration, raised, dl,
                             files, downloaded_clips, downloaded_paths,
                             scaled_paths, overlayed_paths, local_paths, i,
                             content, job, handler, result, args, pools>>

\* a merge job of two clips whose downloads have returned, a trim of the
\* first clip being requested
InitTrim ==
  /\ clip_configs = GoodClips(2)
  /\ first_clip_duration \in TargetDurations
  /\ pc = "trim"
  /\ raised = ""
  /\ dl = [n \in 1 .. 2 |-> [PendingTask EXCEPT !.st = "ok"]]
  /\ files = {DlPath(1), DlPath(2)}
  /\ downloaded_clips = <<DlPath(1), DlPath(2)>>
  /\ downloaded_paths = <<DlPath(1), DlPath(2)>>
  /\ scaled_paths = <<>>
  /\ overlayed_paths = <<>>
  /\ trimmed_path = TrimmedPathOf(DlPath(1))
  /\ local_paths = <<>>
  /\ i = 0
  /\ proc = NoProc
  /\ content = [p \in {DlPath(1), DlPath(2)} |-> <<Clip(p.i, 0)>>]
  /\ job = NoJob /\ handler = NoHandler /\ result = NoResult /\ pools = <<>>
  /\ args \in [fn : {"trim_video"}, trim_mode : TrimModes,
                original_duration : OriginalDurations \cup {None}]
  /\ ret = NoRet

NextTrim ==
  \/ TrimVideo
  \/ TrimExit

SpecTrim == InitTrim /\ [][NextTrim]_vars

\* -------------------------------------------------------------- scale_video
\* The content of a video file: its resolution and how many times it went
\* through an encoder since it was downloaded.
Sides == 1 .. MaxSide
Videos == [width : Sides, height : Sides, enc : {0}]
NoVideo == [width |-> 0, height |-> 0, enc |-> 0]

\* mutant: the fast path writes a re-encoded file
copy2_Reencoded(video) == [video EXCEPT !.enc = @ + 1]

\* shutil.copy2(input_path, output_path): the output holds the input's bytes
copy2(video) == video

\* the scale + pad filter run through h264_nvenc
Rescaled(video, target_width, target_height) ==
  [width |-> target_width, height |-> target_height, enc |-> video.enc + 1]

\* get_media_info, _get_video_width, _get_video_height on the input: the
\* resolution, or None for both when ffprobe failed
Probed(video, probe_ok) ==
  IF probe_ok THEN [width |-> video.width, height |-> video.height]
  ELSE [width |-> None, height |-> None]

\* scale_video on an existing input: what it returns and what it wrote
scale_video(video, probe_ok, target_width, target_height, exit_ok) ==
  LET current == Probed(video, probe_ok) IN
  IF current.width = target_width /\ current.height = target_height
  THEN [success |-> TRUE, scaled |-> FALSE, invoked |-> FALSE,
        probed |-> current, input |-> video, output |-> copy2(video)]
  ELSE IF exit_ok
  THEN [success |-> TRUE, scaled |-> TRUE, invoked |-> TRUE,
        probed |-> current, input |-> video,
        output |-> Rescaled(video, target_width, target_height)]
  ELSE [success |-> FALSE, scaled |-> FALSE, invoked |-> TRUE,
        probed |-> current, input |-> video, output |-> NoVideo]

\* scale_video is applied to the clip, then to the output of the last
\* application
ScaleVideo ==
  /\ args.fn = "scale_video"
  /\ Len(ret.runs) < MaxRuns
  /\ IF ret.runs = <<>> THEN TRUE ELSE ret.runs[Len(ret.runs)].success
  /\ \E probe_ok \in BOOLEAN, exit_ok \in BOOLEAN :
       LET input == IF ret.runs = <<>> THEN args.video
                    ELSE ret.runs[Len(ret.runs)].output
       IN  ret' = [ret EXCEPT !.runs =
                     Append(@, scale_video(input, probe_ok, args.target_width,
                                           args.target_height, exit_ok))]
  /\ UNCHANGED <<clip_configs, first_clip_duration, pc, raised, dl, files,
                 downloaded_clips, downloaded_paths, scaled_paths,
                 overlayed_paths, trimmed_path, local_paths, i, proc, content,
                 job, handler, result, args, pools>>

InitScale ==
  /\ PipelineIdle
  /\ job = NoJob /\ handler = NoHandler /\ result = NoResult /\ pools = <<>>
  /\ args \in [fn : {"scale_video"}, video : Videos,
                target_width : Sides, target_height : Sides]
  /\ ret = [fn |-> "scale_video", runs |-> <<>>]

NextScale == ScaleVideo

SpecScale == InitScale /\ [][NextScale]_vars

\* ------------------------------------------- text hiding on the last clip
\* Times are counted in half seconds.
fade_out_duration == 5   \* add_text_overlay: fade_out_duration = 2.5

\* what the probe of add_text_overlay finds as format.duration of a scaled
\* clip: nothing usable (None), or a duration shorter than, equal to or
\* longer than fade_out_duration
ClipDurations ==
  {None, fade_out_duration - 3, fade_out_duration, fade_out_duration + 2}
MaxTime == fade_out_duration + 3

\* clips given to apply_overlays_to_clips, by their durations: at least two
ClipDurationLists ==
  {d \in SeqsUpTo(ClipDurations, MaxClips + 1) : Len(d) >= MIN_MERGE_CLIPS}

\* is_last_clip = (i == len(clip_configs) - 1), i counting from 0
is_last_clip(idx, num_clips) == idx = num_clips - 1

\* _build_drawtext_filter: the alpha parameter is put in when both values
\* are given; cutoff_time = video_duration - fade_out_duration
build_drawtext_filter(fade, video_duration) ==
  IF fade # None /\ video_duration # None
  THEN [alpha |-> TRUE, cutoff_time |-> video_duration - fade]
  ELSE [alpha |-> FALSE, cutoff_time |-> 0]

\* add_text_overlay: without a duration in the probe the hiding is given
\* up with a warning; the filter is built from what is left
add_text_overlay(apply_fade_out, duration) ==
  LET apply == apply_fade_out /\ duration # None
  IN  build_drawtext_filter(IF apply THEN fade_out_duration ELSE None,
                            IF apply THEN duration ELSE None)

\* alpha='if(lt(t,cutoff_time),1,0)': the text is drawn at time t
Visible(filter, t) == IF filter.alpha THEN t < filter.cutoff_time ELSE TRUE

\* one iteration of the loop of apply_overlays_to_clips: the filter of the
\* next clip, or ffmpeg fails and the stage raises
OverlayClip ==
  /\ args.fn = "apply_overlays"
  /\ ~ret.failed
  /\ Len(ret.filters) < Len(args.durations)
  /\ LET idx == Len(ret.filters)
         filter == add_text_overlay(is_last_clip(idx, Len(args.durations)),
                                    args.durations[idx + 1])
     IN  \/ ret' = [ret EXCEPT !.filters = Append(@, filter)]
         \/ ret' = [ret EXCEPT !.failed = TRUE]
  /\ UNCHANGED <<clip_configs, first_clip_duration, pc, raised, dl, files,
                 downloaded_clips, downloaded_paths, scaled_paths,
                 overlayed_paths, trimmed_path, local_paths, i, proc, content,
                 job, handler, result, args, pools>>

InitOverlay ==
  /\ PipelineIdle
  /\ job = NoJob /\ handler = NoHandler /\ result = NoResult /\ pools = <<>>
  /\ args \in [fn : {"apply_overlays"}, durations : ClipDurationLists]
  /\ ret = [fn |-> "apply_overlays", filters |-> <<>>, failed |-> FALSE]

NextOverlay == OverlayClip

SpecOverlay == InitOverlay /\ [][NextOverlay]_vars

\* ----------------------------------------------------------- filter graphs
\* the layouts whose service builds a filter graph
Collages == Layouts \cup {"outfit"}

\* fade-in lengths in tenths of a second, as the services clamp them
MIN_OUTFIT_FADE_IN == 25
MAX_OUTFIT_FADE_IN == 30
FadeIns ==
  {n \in MIN_OUTFIT_FADE_IN .. MAX_OUTFIT_FADE_IN :
     n <= MIN_OUTFIT_FADE_IN + MaxFadeStep}

\* the grid of the outfit layout
TILE_SIZE == 380
LABEL_OFFSET_Y == -70
TILE_X == <<40, 350, 660>>
TILE_Y == <<435, 891, 1361>>

\* OutfitService._tile_positions: one (x, y) per tile, row by row
tile_positions ==
  [n \in 1 .. Len(TILE_Y) * Len(TILE_X) |->
     <<TILE_X[((n - 1) % Len(TILE_X)) + 1], TILE_Y[((n - 1) \div Len(TILE_X)) + 1]>>]

\* OutfitService._label_positions: the centre above each tile, row by row
label_positions ==
  [n \in 1 .. Len(TILE_Y) * Len(TILE_X) |->
     <<TILE_X[((n - 1) % Len(TILE_X)) + 1] + TILE_SIZE \div 2,
       TILE_Y[((n - 1) \div Len(TILE_X)) + 1] + LABEL_OFFSET_Y>>]

label_texts == <<"A", "B", "C", "1", "2", "3", "D", "E", "F">>

\* mutant: the outfit-single overlay loop leaves the "extra" slot out
OVERLAY_ORDER_NoExtra(layout) ==
  CASE layout = "pov" ->
         <<"landscape", "pants", "shirt", "cap", "car", "flag", "watch", "shoes">>
    [] layout = "outfit-single" ->
         <<"hoodie", "hat", "meme", "pants", "shoes">>
    [] layout = "fitpic" ->
         <<"npc_logo", "brand_logo", "hoodie", "pants", "hat", "meme", "shoes">>

\* OVERLAY_ORDER of the layout's service: the z-order of the slots
OVERLAY_ORDER(layout) ==
  CASE layout = "pov" ->
         <<"landscape", "pants", "shirt", "cap", "car", "flag", "watch", "shoes">>
    [] layout = "outfit-single" ->
         <<"hoodie", "hat", "meme", "pants", "extra", "shoes">>
    [] layout = "fitpic" ->
         <<"npc_logo", "brand_logo", "hoodie", "pants", "hat", "meme", "shoes">>

\* the pads of a stage: an input stream "[n:v]" of the command, or a label
Stream(n) == [stream |-> TRUE, name |-> ToString(n) \o ":v"]
Label(name) == [stream |-> FALSE, name |-> name]

\* SLOT_LAYOUT of the layout's service: top-left corner and size (w, h) of
\* each slot; the square slots of pov and outfit-single have w = h
SLOT_LAYOUT(layout) ==
  CASE layout = "pov" ->
         [key \in {"cap", "flag", "landscape", "shirt", "watch", "pants", "shoes", "car"} |->
            CASE key = "cap" -> [pos |-> <<69, 427>>, size |-> <<339, 339>>]
              [] key = "flag" -> [pos |-> <<428, 425>>, size |-> <<394, 394>>]
              [] key = "landscape" -> [pos |-> <<455, 597>>, size |-> <<625, 625>>]
              [] key = "shirt" -> [pos |-> <<69, 768>>, size |-> <<358, 358>>]
              [] key = "watch" -> [pos |-> <<419, 987>>, size |-> <<190, 190>>]
              [] key = "pants" -> [pos |-> <<37, 1139>>, size |-> <<380, 380>>]
              [] key = "shoes" -> [pos |-> <<69, 1589>>, size |-> <<256, 256>>]
              [] key = "car" -> [pos |-> <<419, 1199>>, size |-> <<624, 624>>]]
    [] layout = "outfit-single" ->
         [key \in {"hoodie", "hat", "pants", "extra", "meme", "shoes"} |->
            CASE key = "hoodie" -> [pos |-> <<270, 590>>, size |-> <<540, 540>>]
              [] key = "hat" -> [pos |-> <<365, 320>>, size |-> <<350, 350>>]
              [] key = "pants" -> [pos |-> <<290, 1060>>, size |-> <<500, 500>>]
              [] key = "extra" -> [pos |-> <<680, 825>>, size |-> <<280, 280>>]
              [] key = "meme" -> [pos |-> <<120, 980>>, size |-> <<250, 250>>]
              [] key = "shoes" -> [pos |-> <<370, 1450>>, size |-> <<340, 340>>]]
    [] layout = "fitpic" ->
         [key \in {"npc_logo", "brand_logo", "hoodie", "pants", "hat", "meme", "shoes"} |->
            CASE key = "npc_logo" -> [pos |-> <<20, 20>>, size |-> <<425, 160>>]
              [] key = "brand_logo" -> [pos |-> <<635, 40>>, size |-> <<425, 160>>]
              [] key = "hoodie" -> [pos |-> <<40, 220>>, size |-> <<550, 550>>]
              [] key = "pants" -> [pos |-> <<40, 780>>, size |-> <<550, 550>>]
              [] key = "hat" -> [pos |-> <<610, 240>>, size |-> <<383, 383>>]
              [] key = "meme" -> [pos |-> <<625, 600>>, size |-> <<333, 333>>]
              [] key = "shoes" -> [pos |-> <<625, 980>>, size |-> <<333, 333>>]]

\* one entry of the list `filters`: "[pads...]filter[out]"; arg holds the
\* numbers of a scale (w, h) or of an overlay (x, y), <<>> for the rest
Stage(pads, filter, out) ==
  [pads |-> pads, filter |-> filter, out |-> out, arg |-> <<>>]
StageArg(pads, filter, arg, out) ==
  [pads |-> pads, filter |-> filter, out |-> out, arg |-> arg]

\* the variable `prev` after the stages appended so far
Prev(filters) == filters[Len(filters)].out

\* the first entry: the colour source of input 0
BaseStage(layout) ==
  IF layout = "outfit" THEN Stage(<<Stream(0)>>, "format", "base0")
  ELSE IF layout = "fitpic" THEN Stage(<<Stream(0)>>, "format", "base")
  ELSE Stage(<<Stream(0)>>, "format,drawbox", "base0")

\* mutant: enumerate(INPUT_ORDER) without start=1
ScaledStages_FromZero(layout) ==
  IF layout = "outfit"
  THEN [idx \in 1 .. 9 |->
          StageArg(<<Stream(idx)>>, "scale,crop,setsar", <<TILE_SIZE, TILE_SIZE>>,
                   "img" \o ToString(idx))]
  ELSE [idx \in 1 .. Len(INPUT_ORDER(layout)) |->
          StageArg(<<Stream(idx - 1)>>, "scale,crop,setsar",
                   SLOT_LAYOUT(layout)[INPUT_ORDER(layout)[idx]].size,
                   "img_" \o INPUT_ORDER(layout)[idx])]

\* the loop that prepares the scaled inputs
ScaledStages(layout) ==
  IF layout = "outfit"
  THEN [idx \in 1 .. 9 |->
          StageArg(<<Stream(idx)>>, "scale,crop,setsar", <<TILE_SIZE, TILE_SIZE>>,
                   "img" \o ToString(idx))]
  ELSE [idx \in 1 .. Len(INPUT_ORDER(layout)) |->
          StageArg(<<Stream(idx)>>, "scale,crop,setsar",
                   SLOT_LAYOUT(layout)[INPUT_ORDER(layout)[idx]].size,
                   "img_" \o INPUT_ORDER(layout)[idx])]

\* the loop that overlays the images: stage n draws on the output of the
\* stage before it, the first one on the base
OverlayStages(layout) ==
  IF layout = "outfit"
  THEN [n \in 1 .. Len(tile_positions) |->
          StageArg(<<Label(IF n = 1 THEN "base0" ELSE "ov" \o ToString(n - 1)),
                     Label("img" \o ToString(n))>>,
                   "overlay", tile_positions[n], "ov" \o ToString(n))]
  ELSE IF layout = "fitpic"
  THEN [n \in 1 .. Len(OVERLAY_ORDER(layout)) |->
          StageArg(<<Label(IF n = 1 THEN "base" ELSE "ov" \o ToString(n - 2)),
                     Label("img_" \o OVERLAY_ORDER(layout)[n])>>,
                   "overlay", SLOT_LAYOUT(layout)[OVERLAY_ORDER(layout)[n]].pos,
                   IF n - 1 = Len(OVERLAY_ORDER(layout)) - 1 THEN "final"
                   ELSE "ov" \o ToString(n - 1))]
  ELSE [n \in 1 .. Len(OVERLAY_ORDER(layout)) |->
          StageArg(<<Label(IF n = 1 THEN "base0" ELSE "ov" \o ToString(n - 1)),
                     Label("img_" \o OVERLAY_ORDER(layout)[n])>>,
                   "overlay", SLOT_LAYOUT(layout)[OVERLAY_ORDER(layout)[n]].pos,
                   "ov" \o ToString(n))]

\* the fade of the body and the two titles, drawn on `prev`
TextStages(prev, fade_in) ==
  << Stage(<<Label(prev)>>, "fade=d=" \o ToString(fade_in), "faded_body"),
     Stage(<<Label("faded_body")>>, "eq", "leveled_body"),
     Stage(<<Label("leveled_body")>>, "drawtext", "txt_main"),
     Stage(<<Label("txt_main")>>, "drawtext", "txt_sub") >>

\* the loop over zip(label_positions, label_texts) of the outfit layout
TileLabelStages ==
  [n \in 1 .. (IF Len(label_positions) < Len(label_texts)
               THEN Len(label_positions) ELSE Len(label_texts)) |->
     Stage(<<Label(IF n = 1 THEN "txt_sub" ELSE "label" \o ToString(n - 2))>>,
           "drawtext=" \o label_texts[n], "label" \o ToString(n - 1))]

\* the last entry: the pixel format conversion of `prev`
FormatStage(prev) == Stage(<<Label(prev)>>, "format=yuv420p", "video_out")

\* _build_filter of the layout's service: the list `filters` it joins
build_filter(layout, fade_in) ==
  LET body == <<BaseStage(layout)>> \o ScaledStages(layout) \o OverlayStages(layout)
      texts == body \o TextStages(Prev(body), fade_in)
  IN  IF layout = "fitpic" THEN body
      ELSE IF layout = "outfit"
      THEN LET labelled == texts \o TileLabelStages
           IN  labelled \o <<FormatStage(Prev(labelled))>>
      ELSE texts \o <<FormatStage(Prev(texts))>>

\* the label _build_ffmpeg_command hands to -map
MapLabel(layout) == IF layout = "fitpic" THEN "final" ELSE "video_out"

\* one filters.append of _build_filter
AppendFilter ==
  /\ ret.fn = "build_filter"
  /\ Len(ret.filters) < Len(build_filter(args.layout, args.fade_in))
  /\ ret' = [ret EXCEPT !.filters =
               Append(@, build_filter(args.layout, args.fade_in)[Len(@) + 1])]
  /\ UNCHANGED <<clip_configs, first_clip_duration, pc, raised, dl, files,
                 downloaded_clips, downloaded_paths, scaled_paths,
                 overlayed_paths, trimmed_path, local_paths, i, proc, content,
                 job, handler, result, args, pools>>

\* _build_ffmpeg_command on the joined filters
BuildFfmpegCommand ==
  /\ ret.fn = "build_filter"
  /\ ret.filters = build_filter(args.layout, args.fade_in)
  /\ ret' = [ret EXCEPT !.fn = "ffmpeg_command", !.map = MapLabel(args.layout)]
  /\ UNCHANGED <<clip_configs, first_clip_duration, pc, raised, dl, files,
                 downloaded_clips, downloaded_paths, scaled_paths,
                 overlayed_paths, trimmed_path, local_paths, i, proc, content,
                 job, handler, result, args, pools>>

InitFilter ==
  /\ PipelineIdle
  /\ job = NoJob /\ handler = NoHandler /\ result = NoResult /\ pools = <<>>
  /\ \E layout \in Collages :
       args \in [fn : {"build_filter"}, layout : {layout},
                 fade_in : IF layout = "fitpic" THEN {None} ELSE FadeIns]
  /\ ret = [fn |-> "build_filter", filters |-> <<>>, map |-> ""]

NextFilter ==
  \/ AppendFilter
  \/ BuildFfmpegCommand

SpecFilter == InitFilter /\ [][NextFilter]_vars

\* ------------------------------------------------------------------- text
\* A text is a sequence of characters; a character is named by a string:
\* "LF" newline, "CR" carriage return, "TAB", "NBSP" U+00A0, "LS" U+2028,
\* "BOM" U+FEFF, "ZWSP" U+200B, "BEL" U+0007, "RSQUO" U+2019, "LDQUO" U+201C,
\* "APOS" the straight apostrophe, "QUOT" the straight double quote,
\* "BACKTICK" and "DOLLAR".

Max(a, b) == IF a >= b THEN a ELSE b

\* str.replace(old, new): left to right, occurrences do not overlap
RECURSIVE ReplaceAll(_, _, _)
ReplaceAll(s, old, new) ==
  IF Len(s) < Len(old) THEN s
  ELSE IF SubSeq(s, 1, Len(old)) = old
  THEN new \o ReplaceAll(SubSeq(s, Len(old) + 1, Len(s)), old, new)
  ELSE <<Head(s)>> \o ReplaceAll(Tail(s), old, new)

\* "".join of a list of strings
RECURSIVE Flatten(_)
Flatten(ss) == IF ss = <<>> THEN <<>> ELSE Head(ss) \o Flatten(Tail(ss))

\* "\n".join(lines)
RECURSIVE JoinLines(_)
JoinLines(lines) ==
  IF lines = <<>> THEN <<>>
  ELSE IF Len(lines) = 1 THEN lines[1]
  ELSE lines[1] \o <<"LF">> \o JoinLines(Tail(lines))

\* textwrap: string.whitespace as far as the alphabet has it
Whitespace == {" ", "LF", "CR", "TAB"}

\* TextWrapper._munge_whitespace: tabs expanded, each whitespace character
\* replaced by one space
munge_whitespace(text) ==
  [k \in DOMAIN text |-> IF text[k] \in Whitespace THEN " " ELSE text[k]]

IsBlank(chunk) == \A k \in DOMAIN chunk : chunk[k] = " "

\* TextWrapper._split: maximal runs of spaces and of other characters
RECURSIVE split_chunks(_)
split_chunks(text) ==
  IF text = <<>> THEN <<>>
  ELSE LET rest == split_chunks(Tail(text))
       IN  IF rest # <<>> /\ ((Head(rest)[1] = " ") <=> (Head(text) = " "))
           THEN <<(<<Head(text)>> \o Head(rest))>> \o Tail(rest)
           ELSE <<(<<Head(text)>>)>> \o rest

\* the inner loop of _wrap_chunks: chunks are taken while they fit
RECURSIVE Fill(_, _, _)
Fill(chunks, cur_line, width) ==
  IF chunks # <<>> /\ Len(Flatten(cur_line)) + Len(Head(chunks)) <= width
  THEN Fill(Tail(chunks), Append(cur_line, Head(chunks)), width)
  ELSE [cur_line |-> cur_line, chunks |-> chunks]

\* mutant: break_long_words is off, a long word gets a line of its own
handle_long_word_Unbroken(chunks, cur_line, width) ==
  IF cur_line = <<>>
  THEN [cur_line |-> <<Head(chunks)>>, chunks |-> Tail(chunks)]
  ELSE [cur_line |-> cur_line, chunks |-> chunks]

\* TextWrapper._handle_long_word with break_long_words: the chunk is cut at
\* the space left on the line
handle_long_word(chunks, cur_line, width) ==
  LET space_left == IF width < 1 THEN 1 ELSE width - Len(Flatten(cur_line))
      chunk == Head(chunks)
  IN  [cur_line |-> Append(cur_line, SubSeq(chunk, 1, space_left)),
       chunks |-> <<SubSeq(chunk, space_left + 1, Len(chunk))>> \o Tail(chunks)]

\* TextWrapper._wrap_chunks with drop_whitespace and no indents
RECURSIVE wrap_chunks(_, _, _)
wrap_chunks(chunks, width, lines) ==
  IF chunks = <<>> THEN lines
  ELSE LET first == IF IsBlank(Head(chunks)) /\ lines # <<>>
                    THEN Tail(chunks) ELSE chunks
           filled == Fill(first, <<>>, width)
           broken == IF filled.chunks # <<>> /\ Len(Head(filled.chunks)) > width
                     THEN handle_long_word(filled.chunks, filled.cur_line, width)
                     ELSE filled
           cur_line == IF broken.cur_line # <<>>
                          /\ IsBlank(broken.cur_line[Len(broken.cur_line)])
                       THEN SubSeq(broken.cur_line, 1, Len(broken.cur_line) - 1)
                       ELSE broken.cur_line
       IN  wrap_chunks(broken.chunks, width,
                       IF cur_line # <<>> THEN Append(lines, Flatten(cur_line))
                       ELSE lines)

\* textwrap.wrap(text, width=max_chars)
textwrap_wrap(text, width) ==
  wrap_chunks(split_chunks(munge_whitespace(text)), width, <<>>)

\* max_chars of _wrap_text: max(1, int(max_width_px / max(font_size * 0.55, 1)))
max_chars(font_size, max_width) ==
  Max(1, (max_width * 100) \div Max(font_size * 55, 100))

\* mutant: only the first line is returned
wrap_text_FirstLine(text, font_size, max_width) ==
  LET lines == textwrap_wrap(text, max_chars(font_size, max_width))
  IN  IF lines = <<>> THEN [text |-> <<>>, lines |-> <<>>]
      ELSE [text |-> lines[1], lines |-> <<lines[1]>>]

\* _wrap_text: the wrapped text and the list of its lines
wrap_text(text, font_size, max_width) ==
  IF text = <<>> THEN [text |-> <<>>, lines |-> <<>>]
  ELSE LET lines == textwrap_wrap(text, max_chars(font_size, max_width))
       IN  IF lines = <<>> THEN [text |-> <<>>, lines |-> <<>>]
           ELSE [text |-> JoinLines(lines), lines |-> lines]

\* texts, font sizes and widths in pixels the wrap function is applied to
WrapChars == {"a", "b", " ", "LF"}
WrapTexts == SeqsUpTo(WrapChars, MaxWrapLen)
WrapFontSizes == {1, 12, 40}
WrapWidths == {5, 20, 50}

\* one call of _wrap_text
WrapText ==
  /\ args.fn = "wrap_text"
  /\ ret = NoRet
  /\ ret' = [fn |-> "wrap_text"] @@
            wrap_text(args.text, args.font_size, args.max_width_px)
  /\ UNCHANGED <<clip_configs, first_clip_duration, pc, raised, dl, files,
                 downloaded_clips, downloaded_paths, scaled_paths,
                 overlayed_paths, trimmed_path, local_paths, i, proc, content,
                 job, handler, result, args, pools>>

InitWrap ==
  /\ PipelineIdle
  /\ job = NoJob /\ handler = NoHandler /\ result = NoResult /\ pools = <<>>
  /\ args \in [fn : {"wrap_text"}, text : WrapTexts,
               font_size : WrapFontSizes, max_width_px : WrapWidths]
  /\ ret = NoRet

NextWrap == WrapText

SpecWrap == InitWrap /\ [][NextWrap]_vars

\* ----------------------------------------------------------- sanitization
BASE_RESOLUTION_WIDTH == 1080
CANVAS_WIDTH == 1080
DEFAULT_FONT_SIZE == 46
DEFAULT_MAX_TEXT_WIDTH_PERCENT == 80

\* what sanitize_unicode's loop appends for one character: newlines and the
\* line separator give a newline, the non-breaking space and the tab a space,
\* always_drop and the categories Cf and Cc nothing, any other character itself
sanitize_char(char) ==
  IF char = "LF" THEN <<"LF">>
  ELSE IF char = "LS" THEN <<"LF">>
  ELSE IF char = "NBSP" THEN <<" ">>
  ELSE IF char = "TAB" THEN <<" ">>
  ELSE IF char = "BOM" THEN <<>>
  ELSE IF char = "ZWSP" THEN <<>>
  ELSE IF char \in {"BEL", "CR"} THEN <<>>
  ELSE <<char>>

\* line.rstrip(" ") on every line of the text; `atEnd` says that only spaces
\* follow on the line
RECURSIVE rstrip_lines(_, _)
rstrip_lines(text, atEnd) ==
  IF text = <<>> THEN <<>>
  ELSE LET last == text[Len(text)]
           front == SubSeq(text, 1, Len(text) - 1)
       IN  IF last = "LF" THEN rstrip_lines(front, TRUE) \o <<"LF">>
           ELSE IF last = " " /\ atEnd THEN rstrip_lines(front, TRUE)
           ELSE rstrip_lines(front, FALSE) \o <<last>>

\* the characters str.strip() removes
PySpace == {" ", "LF", "CR", "TAB", "NBSP", "LS"}

\* str.strip()
RECURSIVE strip(_)
strip(text) ==
  IF text = <<>> THEN <<>>
  ELSE IF Head(text) \in PySpace THEN strip(Tail(text))
  ELSE IF text[Len(text)] \in PySpace THEN strip(SubSeq(text, 1, Len(text) - 1))
  ELSE text

\* sanitize_unicode
sanitize_unicode(text) ==
  IF text = <<>> THEN <<>>
  ELSE LET crlf == ReplaceAll(ReplaceAll(text, <<"CR", "LF">>, <<"LF">>),
                              <<"CR">>, <<"LF">>)
           before == ReplaceAll(crlf, <<"LS", "LF">>, <<"LF">>)
           after == ReplaceAll(before, <<"LF", "LS">>, <<"LF">>)
           kept == Flatten([k \in DOMAIN after |-> sanitize_char(after[k])])
       IN  strip(rstrip_lines(kept, TRUE))

\* validate_text of the request models: sanitize_unicode, smart quotes made
\* straight, backtick and dollar sign removed, the result stripped
validate_text(v) ==
  LET clean == sanitize_unicode(v)
      quoted == [k \in DOMAIN clean |->
                   IF clean[k] = "RSQUO" THEN "APOS"
                   ELSE IF clean[k] = "LDQUO" THEN "QUOT" ELSE clean[k]]
  IN  strip(SelectSeq(quoted, LAMBDA c : c \notin {"BACKTICK", "DOLLAR"}))

\* the job actions that render a text of the caller
CollageActions == {"outfit", "pov", "outfit-single"}
TextActions == CollageActions \cup {"merge", "overlay"}

TITLE_FONT_SIZE_DEFAULT(action) ==
  CASE action = "outfit" -> 74
    [] action = "pov" -> 66
    [] action = "outfit-single" -> 64

\* the text part of add_text_overlay: sanitize_unicode, then the wrap when
\* the width of the medium is known
overlay_text(text, img_width) ==
  LET clean == sanitize_unicode(text)
  IN  IF img_width # None
      THEN wrap_text(clean, (DEFAULT_FONT_SIZE * img_width) \div BASE_RESOLUTION_WIDTH,
                     (img_width * DEFAULT_MAX_TEXT_WIDTH_PERCENT) \div 100).text
      ELSE clean

\* what the job writes to the text file of the renderer; a collage request
\* with an empty title and a merge request with an empty text are rejected
rendered_text(action, text, img_width) ==
  IF action \in CollageActions
  THEN [rejected |-> Len(text) < 1,
        file |-> wrap_text(validate_text(text), TITLE_FONT_SIZE_DEFAULT(action),
                           CANVAS_WIDTH - 160).text]
  ELSE [rejected |-> action = "merge" /\ text = <<>>,
        file |-> overlay_text(text, img_width)]

SanChars ==
  {"a", " ", "LF", "CR", "TAB", "NBSP", "LS", "BOM", "ZWSP", "BEL", "RSQUO",
   "LDQUO", "BACKTICK", "DOLLAR"}
SanTexts == SeqsUpTo(SanChars, MaxTextLen)

\* one job that renders a text, up to the write of the text file
RenderText ==
  /\ args.fn = "render_text"
  /\ ret = NoRet
  /\ ret' = [fn |-> "render_text"] @@
            rendered_text(args.action, args.text, args.img_width)
  /\ UNCHANGED <<clip_configs, first_clip_duration, pc, raised, dl, files,
                 downloaded_clips, downloaded_paths, scaled_paths,
                 overlayed_paths, trimmed_path, local_paths, i, proc, content,
                 job, handler, result, args, pools>>

InitText ==
  /\ PipelineIdle
  /\ job = NoJob /\ handler = NoHandler /\ result = NoResult /\ pools = <<>>
  /\ \E action \in TextActions :
       args \in [fn : {"render_text"}, action : {action}, text : SanTexts,
                 img_width : IF action \in CollageActions THEN {None}
                             ELSE {None, BASE_RESOLUTION_WIDTH}]
  /\ ret = NoRet

NextText == RenderText

SpecText == InitText /\ [][NextText]_vars

\* --------------------------------------------------- uniqueness transform
\* OGService (SteinService has the same parameters and the same code).
\* Fade lengths and opacities are in hundredths, stretch percents in tenths
\* of a percent, times in ticks of 1/TicksPerSecond s.
MIN_FADE_IN == 20
MAX_FADE_IN == 125
MIN_FADE_BLACK_OPACITY == 69
MAX_FADE_BLACK_OPACITY == 88
MIN_STRETCH_PERCENT == 3
MAX_STRETCH_PERCENT == 120
MIN_SLOWDOWN_PERCENT == 0
MAX_SLOWDOWN_PERCENT == 20
LOGO_SIZE == 333
LOGO_MARGIN == 75
CANVAS_HEIGHT == 1920
POSITION_CHANGE_INTERVAL == 2

\* values random.uniform(a, b) and random.randint(a, b) can return: the ends
uniform(a, b) == {a, b}
randint(a, b) == {a, b}

\* mutant: the largest x leaves no margin on the right
max_x_NoMargin == CANVAS_WIDTH - LOGO_SIZE

\* the largest coordinates of _generate_random_positions
max_x == CANVAS_WIDTH - LOGO_SIZE - LOGO_MARGIN
max_y == CANVAS_HEIGHT - LOGO_SIZE - LOGO_MARGIN

\* _generate_random_positions(count): the lists it can return
generate_random_positions(count) ==
  [1 .. count -> randint(LOGO_MARGIN, max_x) \X randint(LOGO_MARGIN, max_y)]

\* num_positions of a video of the given duration
num_positions(duration) ==
  Max(1, duration \div (POSITION_CHANGE_INTERVAL * TicksPerSecond) + 1)

\* an expression of the renderer: a number, or if(lt(t, threshold), then, else)
Const(c) == [op |-> "const", value |-> c]
IfLt(threshold, c, expr) ==
  [op |-> "if_lt", threshold |-> threshold, then |-> c, else |-> expr]

\* the loop of _build_position_expression, from index n down to 0
RECURSIVE nest_positions(_, _, _)
nest_positions(coords, n, expr) ==
  IF n < 0 THEN expr
  ELSE nest_positions(coords, n - 1,
                      IfLt((n + 1) * POSITION_CHANGE_INTERVAL, coords[n + 1], expr))

\* _build_position_expression(positions, coord_index)
build_position_expression(positions, coord_index) ==
  IF Len(positions) = 1 THEN Const(positions[1][coord_index + 1])
  ELSE LET coords == [k \in DOMAIN positions |-> positions[k][coord_index + 1]]
       IN  nest_positions(coords, Len(coords) - 2, Const(coords[Len(coords)]))

\* the value the renderer gives the expression at tick t
RECURSIVE Eval(_, _)
Eval(expr, t) ==
  IF expr.op = "const" THEN expr.value
  ELSE IF t < expr.threshold * TicksPerSecond THEN expr.then
  ELSE Eval(expr.else, t)

\* the size the first stage of _build_filter_complex scales to
scale_size(stretch_direction, stretch_amount) ==
  IF stretch_direction = "horizontal"
  THEN [w |-> CANVAS_WIDTH + stretch_amount, h |-> CANVAS_HEIGHT]
  ELSE [w |-> CANVAS_WIDTH, h |-> CANVAS_HEIGHT + stretch_amount]

\* stretch_amount = int(base_dimension * stretch_percent / 100)
stretch_amount(stretch_direction, stretch_percent) ==
  ((IF stretch_direction = "horizontal" THEN CANVAS_WIDTH ELSE CANVAS_HEIGHT)
     * stretch_percent) \div 1000

VideoDurations == 1 .. MaxVideoTicks

\* create_og_video on a video of duration args.duration, up to its return
CreateOgVideo ==
  /\ args.fn = "create_og_video"
  /\ ret = NoRet
  /\ \E fade_duration \in uniform(MIN_FADE_IN, MAX_FADE_IN),
        fade_black_opacity \in uniform(MIN_FADE_BLACK_OPACITY, MAX_FADE_BLACK_OPACITY),
        stretch_direction \in {"horizontal", "vertical"},
        stretch_percent \in uniform(MIN_STRETCH_PERCENT, MAX_STRETCH_PERCENT),
        slowdown_percent \in uniform(MIN_SLOWDOWN_PERCENT, MAX_SLOWDOWN_PERCENT),
        positions \in generate_random_positions(num_positions(args.duration)) :
       ret' = [fn |-> "create_og_video",
               drawn |-> [fade_duration |-> fade_duration,
                          fade_black_opacity |-> fade_black_opacity,
                          stretch_direction |-> stretch_direction,
                          stretch_percent |-> stretch_percent,
                          slowdown_percent |-> slowdown_percent,
                          positions |-> positions],
               scale |-> scale_size(stretch_direction,
                                    stretch_amount(stretch_direction, stretch_percent)),
               x_expr |-> build_position_expression(positions, 0),
               y_expr |-> build_position_expression(positions, 1),
               metadata |-> [success |-> TRUE,
                             fade_duration |-> fade_duration,
                             fade_black_opacity |-> fade_black_opacity,
                             stretch_direction |-> stretch_direction,
                             stretch_amount |->
                               stretch_amount(stretch_direction, stretch_percent),
                             slowdown_percent |-> slowdown_percent,
                             num_logo_positions |-> num_positions(args.duration)]]
  /\ UNCHANGED <<clip_configs, first_clip_duration, pc, raised, dl, files,
                 downloaded_clips, downloaded_paths, scaled_paths,
                 overlayed_paths, trimmed_path, local_paths, i, proc, content,
                 job, handler, result, args, pools>>

InitUnique ==
  /\ PipelineIdle
  /\ job = NoJob /\ handler = NoHandler /\ result = NoResult /\ pools = <<>>
  /\ args \in [fn : {"create_og_video"}, duration : VideoDurations]
  /\ ret = NoRet

NextUnique == CreateOgVideo

SpecUnique == InitUnique /\ [][NextUnique]_vars

\* ------------------------------------------------------- connection pools
MINCONN == 1
MAXCONN == 10

\* SimpleConnectionPool(minconn=1, maxconn=10) as _initialize_pool makes it:
\* minconn connections are open; `held` says that an object of the process
\* still refers to the DatabaseService of the pool
NewPool(owner) == [owner |-> owner, open |-> MINCONN, held |-> TRUE]

\* the DatabaseService objects the process keeps and connects through: the
\* one of the cached service "template" of get_service.  (The cached service
\* "database" is only asked check_connection, which returns without a pool;
\* the one OutfitSingleService._get_database_service makes is only asked
\* get_random_sound, which is not a method of DatabaseService.)
CachedOwners == {"template"}

HasPool(owner) == \E k \in DOMAIN pools : pools[k].owner = owner /\ pools[k].held

\* connections open in the process
RECURSIVE OpenConnections(_)
OpenConnections(ps) ==
  IF ps = <<>> THEN 0 ELSE Head(ps).open + OpenConnections(Tail(ps))

\* a job that uses the database through a cached service (template_get and
\* the other template actions): get_connection makes the pool at the first
\* use, unless the database cannot be reached
UseCachedService(owner) ==
  /\ args.fn = "jobs"
  /\ ~args.lookup
  /\ args.jobs < MaxJobs
  /\ \E reachable \in BOOLEAN :
       pools' = IF ~HasPool(owner) /\ reachable
                THEN Append(pools, NewPool(owner)) ELSE pools
  /\ args' = [args EXCEPT !.jobs = @ + 1]
  /\ UNCHANGED <<clip_configs, first_clip_duration, pc, raised, dl, files,
                 downloaded_clips, downloaded_paths, scaled_paths,
                 overlayed_paths, trimmed_path, local_paths, i, proc, content,
                 job, handler, result, ret>>

\* get_template of config.py, called by add_text_overlay in an overlay or
\* merge job: a new TemplateService, hence a new DatabaseService, whose first
\* get_connection makes a pool of its own
GetTemplate ==
  /\ args.fn = "jobs"
  /\ ~args.lookup
  /\ args.jobs < MaxJobs
  /\ \E reachable \in BOOLEAN :
       /\ pools' = IF reachable THEN Append(pools, NewPool("get_template")) ELSE pools
       /\ args' = [args EXCEPT !.jobs = @ + 1, !.lookup = reachable]
  /\ UNCHANGED <<clip_configs, first_clip_duration, pc, raised, dl, files,
                 downloaded_clips, downloaded_paths, scaled_paths,
                 overlayed_paths, trimmed_path, local_paths, i, proc, content,
                 job, handler, result, ret>>

\* get_template returns: the connection went back with putconn, close_pool was
\* not called, nothing refers to the TemplateService any more
GetTemplateReturn ==
  /\ args.fn = "jobs"
  /\ args.lookup
  /\ pools' = [pools EXCEPT ![Len(pools)].held = FALSE]
  /\ args' = [args EXCEPT !.lookup = FALSE]
  /\ UNCHANGED <<clip_configs, first_clip_duration, pc, raised, dl, files,
                 downloaded_clips, downloaded_paths, scaled_paths,
                 overlayed_paths, trimmed_path, local_paths, i, proc, content,
                 job, handler, result, ret>>

\* the interpreter frees a pool nothing refers to, at a time of its choosing;
\* the connections of the pool are closed when they are freed
Collect ==
  /\ args.fn = "jobs"
  /\ \E k \in DOMAIN pools :
       /\ ~pools[k].held
       /\ pools' = SubSeq(pools, 1, k - 1) \o SubSeq(pools, k + 1, Len(pools))
  /\ UNCHANGED <<clip_configs, first_clip_duration, pc, raised, dl, files,
                 downloaded_clips, downloaded_paths, scaled_paths,
                 overlayed_paths, trimmed_path, local_paths, i, proc, content,
                 job, handler, result, args, ret>>

InitPools ==
  /\ PipelineIdle
  /\ job = NoJob /\ handler = NoHandler /\ result = NoResult
  /\ args = [fn |-> "jobs", jobs |-> 0, lookup |-> FALSE]
  /\ ret = NoRet
  /\ pools = <<>>

NextPools ==
  \/ \E owner \in CachedOwners : UseCachedService(owner)
  \/ GetTemplate
  \/ GetTemplateReturn
  \/ Collect

SpecPools == InitPools /\ [][NextPools]_vars

\* ------------------------------------------------------------ collage job
\* create_pov_video, create_outfit_single_video, create_fitpic_image from the
\* request to the renderer command.  The request maps every slot key to a URL
Urls == {"u1", "u2"}

\* mappings of the requests: every slot its own URL, or one URL for all
\* slots but at most one
ImageMaps(layout) ==
  {[key \in RequiredKeys(layout) |-> "u_" \o key]}
    \cup {[key \in RequiredKeys(layout) |-> IF key \in S THEN "u1" ELSE "u2"] :
            S \in {T \in SUBSET RequiredKeys(layout) : Cardinality(T) <= 1}}

\* download_tasks: task n is download_from_url(request.images[INPUT_ORDER[n]])
StartImageDownloads ==
  /\ args.fn = "collage" /\ ret = NoRet /\ dl = <<>>
  /\ dl' = [n \in 1 .. Len(INPUT_ORDER(args.layout)) |-> PendingTask]
  /\ UNCHANGED <<clip_configs, first_clip_duration, pc, raised, files,
                 downloaded_clips, downloaded_paths, scaled_paths,
                 overlayed_paths, trimmed_path, local_paths, i, proc, content,
                 otherVars>>

\* one of the tasks ends, in any order: its file holds the image of its URL,
\* or it raised
DownloadImage ==
  /\ args.fn = "collage" /\ ret = NoRet
  /\ \E n \in DOMAIN dl :
       /\ dl[n].st = "pending"
       /\ \/ /\ dl' = [dl EXCEPT ![n] = [@ EXCEPT !.st = "ok"]]
             /\ files' = files \cup {DlPath(n)}
             /\ content' =
                  (DlPath(n) :> args.images[INPUT_ORDER(args.layout)[n]]) @@ content
          \/ /\ dl' = [dl EXCEPT ![n] = [@ EXCEPT !.st = "failed", !.err = "network"]]
             /\ UNCHANGED <<files, content>>
  /\ UNCHANGED <<clip_configs, first_clip_duration, pc, raised,
                 downloaded_clips, downloaded_paths, scaled_paths,
                 overlayed_paths, trimmed_path, local_paths, i, proc,
                 otherVars>>

\* asyncio.gather returned: image_paths = [path for path, _ in results]
GatherImages ==
  /\ args.fn = "collage" /\ ret = NoRet /\ dl # <<>>
  /\ downloaded_paths = <<>>
  /\ GatherDone
  /\ downloaded_paths' = GatherResults
  /\ UNCHANGED <<clip_configs, first_clip_duration, pc, raised, dl, files,
                 downloaded_clips, scaled_paths, overlayed_paths, trimmed_path,
                 local_paths, i, proc, content, otherVars>>

\* asyncio.gather raised: the job fails before a command is built
GatherImagesRaise ==
  /\ args.fn = "collage" /\ ret = NoRet
  /\ GatherFailed
  /\ ret' = [fn |-> "raised", inputs |-> <<>>, filters |-> <<>>, map |-> ""]
  /\ UNCHANGED <<clip_configs, first_clip_duration, pc, raised, dl, files,
                 downloaded_clips, downloaded_paths, scaled_paths,
                 overlayed_paths, trimmed_path, local_paths, i, proc, content,
                 job, handler, result, args, pools>>

\* the colour source that is input 0 of the command
ColorSource == Path("color", 0)

\* _build_filter and _build_ffmpeg_command: "-i color=..." first, then one
\* "-i path" per entry of image_paths, in the order of the list
BuildCollageCommand ==
  /\ args.fn = "collage" /\ ret = NoRet
  /\ downloaded_paths # <<>>
  /\ ret' = [fn |-> "ffmpeg_command",
             inputs |-> <<ColorSource>> \o downloaded_paths,
             filters |-> build_filter(args.layout, args.fade_in),
             map |-> MapLabel(args.layout)]
  /\ UNCHANGED <<clip_configs, first_clip_duration, pc, raised, dl, files,
                 downloaded_clips, downloaded_paths, scaled_paths,
                 overlayed_paths, trimmed_path, local_paths, i, proc, content,
                 job, handler, result, args, pools>>

InitCollage ==
  /\ PipelineIdle
  /\ job = NoJob /\ handler = NoHandler /\ result = NoResult /\ pools = <<>>
  /\ \E layout \in Layouts :
       args \in [fn : {"collage"}, layout : {layout}, images : ImageMaps(layout),
                 fade_in : IF layout = "fitpic" THEN {None}
                           ELSE {MIN_OUTFIT_FADE_IN}]
  /\ ret = NoRet

NextCollage ==
  \/ StartImageDownloads
  \/ DownloadImage
  \/ GatherImages
  \/ GatherImagesRaise
  \/ BuildCollageCommand

SpecCollage == InitCollage /\ [][NextCollage]_vars

\* ------------------------------------------------------------------ claims
Concluded == pc \in {"done", "failed"}
FilesOfKind(kinds) == {f \in files : f.kind \in kinds}

\* C1: once process_merge_request has concluded, with success or failure,
\* the only file of the job that may still exist in the temp directory is
\* the final output path.
C1_OnlyOutputRemains == Concluded => files \subseteq {OutputPath}

\* C2: when the scale, overlay or merge stage raises, every file produced by
\* the stages that had completed (downloaded originals or the trimmed first
\* clip, scaled clips, overlayed clips) is gone when the exception leaves
\* process_merge_request, and the exception does leave it.
C2_CompletedStagesCleaned ==
  /\ raised = "Clip scaling failed" => FilesOfKind({"dl", "trimmed"}) = {}
  /\ raised = "Overlay processing failed" =>
       FilesOfKind({"dl", "trimmed", "scaled"}) = {}
  /\ raised = "Video merge failed" =>
       FilesOfKind({"dl", "trimmed", "scaled", "overlayed"}) = {}
  /\ pc = "failed" <=> raised # ""

\* the overlay of the second clip failed after a trim and a full scale stage
C2_Witness ==
  /\ pc = "failed" /\ raised = "Overlay processing failed"
  /\ trimmed_path # NoPath
  /\ Len(scaled_paths) = Len(clip_configs)
  /\ i = 2
  /\ FilesOfKind({"dl", "trimmed", "scaled"}) = {}

\* C3: when one download of a concurrent batch fails, every file written by
\* the other downloads of the batch, finished before the failure or after
\* it, is deleted by the time the job has concluded.
C3_BatchFilesCleaned ==
  (pc = "failed" /\ raised = "Clip download failed") =>
     \A n \in DOMAIN dl : dl[n].st # "failed" => DlPath(n) \notin files

\* one step of a job: where pc may go, and what must be there when it does
StageStep ==
  /\ pc = "failed" => pc' = "failed" /\ proc' = NoProc
  /\ pc = "done" => pc' = "done" /\ proc' = NoProc
  /\ pc' # pc =>
       \/ pc' = "failed"
       \/ /\ pc = "validate" /\ pc' = "download"
          /\ validate_merge_request(clip_configs) = ""
       \/ /\ pc = "download" /\ pc' = "trim"
          /\ first_clip_duration # None
          /\ \A n \in DOMAIN dl : dl[n].st = "ok" /\ DlPath(n) \in files
       \/ /\ pc = "download" /\ pc' = "scale"
          /\ first_clip_duration = None
          /\ \A n \in DOMAIN dl : dl[n].st = "ok" /\ DlPath(n) \in files
       \/ /\ pc = "trim" /\ pc' = "scale"
          /\ \/ proc.kind = "trim" /\ TrimmedPathOf(DlPath(1)) \in files'
             \/ proc.kind = "ffprobe" /\ trimmed_path' = NoPath
       \/ /\ pc = "scale" /\ pc' = "overlay"
          /\ \A n \in 1 .. Len(clip_configs) : ScaledPath(n) \in files'
       \/ /\ pc = "overlay" /\ pc' = "merge"
          /\ \A n \in 1 .. Len(clip_configs) : OverlayedPath(n) \in files'
       \/ /\ pc = "merge" /\ pc' = "done"
          /\ OutputPath \in files'
\* C4: the stages run in the order validate, download, optional trim, scale,
\* overlay, merge; a stage starts only when the previous one has finished
\* successfully; after a failure no stage and no external run is started and
\* "done" is not reached.
C4_StagesInOrder == [][StageStep]_vars

\* a job with a trimmed first clip that went through every stage
C4_Witness ==
  /\ pc = "done"
  /\ trimmed_path # NoPath
  /\ OutputPath \in files

\* C5: every external renderer or probe run of a job is bounded by a
\* wall-clock timeout, so a run that never exits still ends the job with a
\* timeout failure.
C5_EveryRunHasTimeout == proc.kind # "none" => proc.timeout # NoTimeout

\* C6: however download_from_url fails, also after chunks were written, no
\* file of that download exists once the failure has been raised.
C6_NoFileAfterFailure ==
  \A n \in DOMAIN dl : dl[n].st = "failed" => DlPath(n) \notin files

\* C7: whatever Content-Length the response gave, at most MAX_FILE_SIZE
\* bytes are ever written; the download fails as soon as the received total
\* exceeds MAX_FILE_SIZE, and the partial file is then gone.
C7_StreamCapped ==
  \A n \in DOMAIN dl :
    /\ dl[n].written <= MAX_FILE_SIZE
    /\ dl[n].total > MAX_FILE_SIZE =>
         /\ dl[n].st = "failed" /\ dl[n].err = "exceeds"
         /\ DlPath(n) \notin files
    /\ dl[n].err = "exceeds" => dl[n].total > MAX_FILE_SIZE

\* a body longer than both its declared length and the limit
C7_Witness ==
  /\ dl[1].resp.clen # None /\ dl[1].resp.clen < dl[1].total
  /\ dl[1].total > MAX_FILE_SIZE
  /\ dl[1].written > 0
  /\ dl[1].st = "failed"
  /\ DlPath(1) \notin files

\* C8: a response that declares a Content-Length above MAX_FILE_SIZE is
\* rejected before the local file is created and before any byte is written.
C8_DeclaredTooLargeRejected ==
  \A n \in DOMAIN dl :
    /\ dl[n].st = "pending" => DlPath(n) \notin files
    /\ dl[n].resp.clen > MAX_FILE_SIZE =>
         /\ dl[n].st = "failed"
         /\ DlPath(n) \notin files
         /\ dl[n].written = 0 /\ dl[n].total = 0
         /\ (dl[n].resp.status = 200 /\ IsValidContentType(dl[n].resp.ctype))
              => dl[n].err = "too_large"

C8_Witness ==
  /\ dl[1].resp.status = 200
  /\ dl[1].resp.clen = MAX_FILE_SIZE + 1
  /\ dl[1].err = "too_large"
  /\ files = {}

\* the request has one of the defects the validation is to report
HasValidationDefect(cfgs) ==
  \/ Len(cfgs) < 2
  \/ Len(cfgs) > MAX_MERGE_CLIPS
  \/ \E k \in 1 .. Len(cfgs) :
       \/ ~cfgs[k].url
       \/ cfgs[k].text = 0
       \/ cfgs[k].text > 500
       \/ OverridesRejected(cfgs[k].overrides)
\* C9: every validation failure of a merge job (clip count, missing URL,
\* missing or over-long text, malformed colour in a clip's overrides) is
\* reported before any download is started and before any file is created.
C9_ValidationBeforeIO ==
  HasValidationDefect(clip_configs) =>
    /\ pc \in {"validate", "failed"}
    /\ dl = <<>>
    /\ files = {}

\* the clip lists that are to be accepted, and the errors of the others
Acceptable(cfgs) ==
  /\ Len(cfgs) >= 2
  /\ Len(cfgs) <= MAX_MERGE_CLIPS
  /\ \A k \in 1 .. Len(cfgs) :
       cfgs[k].url /\ cfgs[k].text >= 1 /\ cfgs[k].text <= 500
ValueErrors ==
  {"At least 2 clips are required", "Maximum clips exceeded",
   "URL is required", "Text is required", "Text too long"}
\* C10: validate_merge_request accepts a clip list iff it has 2 to
\* MAX_MERGE_CLIPS clips, each with a non-empty URL and a non-empty text of
\* at most 500 characters; otherwise it raises ValueError.
C10_ValidateIff ==
  pc # "validate" =>
    IF Acceptable(clip_configs)
    THEN pc = "download" /\ raised = ""
    ELSE pc = "failed" /\ raised \in ValueErrors

\* the longest list that is accepted, its last text of the maximum length
C10_Witness ==
  /\ pc = "download"
  /\ Len(clip_configs) = MAX_MERGE_CLIPS
  /\ clip_configs[MAX_MERGE_CLIPS].text = 500

\* C15: whatever order the downloads complete in, the i-th local path the
\* download stage returns holds the video of the i-th clip's URL; the overlay
\* of clip i draws clip i's text on the video of clip i's URL; the merged
\* output is the clips in request order.
C15_ClipsInRequestOrder ==
  /\ pc \in {"trim", "scale"} =>
       \A n \in 1 .. Len(downloaded_clips) :
         content[downloaded_clips[n]] = <<Clip(n, 0)>>
  /\ \A n \in 1 .. Len(overlayed_paths) :
       content[overlayed_paths[n]] = <<Clip(n, n)>>
  /\ pc = "done" =>
       content[OutputPath] = [n \in 1 .. Len(clip_configs) |-> Clip(n, n)]

\* a job of two clips, the first one trimmed, was merged
C15_Witness ==
  /\ pc = "done"
  /\ trimmed_path # NoPath
  /\ content[OutputPath] = <<Clip(1, 1), Clip(2, 2)>>

\* C11: for each keyed layout, the image mapping of a request is rejected
\* if and only if its key set differs from the layout's required key set,
\* and no download task exists when it is rejected (tasks are created only
\* for a mapping with exactly the required keys).
C11_KeySetExact ==
  /\ ret # NoRet =>
       (ret.error # "" <=> args.images # RequiredKeys(args.layout))
  /\ (ret # NoRet /\ ret.error # "") => dl = <<>>
  /\ dl # <<>> => args.images = RequiredKeys(args.layout)

\* a fitpic request with every required key and one more was rejected
C11_Witness ==
  /\ args.fn = "keyed" /\ args.layout = "fitpic"
  /\ RequiredKeys("fitpic") \subseteq args.images
  /\ args.images # RequiredKeys("fitpic")
  /\ ret # NoRet /\ ret.error # ""
  /\ dl = <<>>

\* the job failed: an exception left the handler, or the result reports one
JobFailed == result.kind = "raised" \/ result.error # "absent"

\* C12: every failed job, whichever action and whichever stage failed,
\* returns a result with a status tag equal to "error" and a message holding
\* the cause.
C12_ErrorShape ==
  (result # NoResult /\ JobFailed) =>
     /\ result.kind = "returned"
     /\ result.status = "error"
     /\ result.message \notin {"absent", ""}

\* C13: async_handler never raises: for every job dictionary it returns a
\* result dictionary to the dispatch layer.
C13_NeverRaises == result.kind # "raised"

\* C14: a success result of a job that renders an output carries a download
\* URL produced by a successful upload of the output file; when the upload
\* fails the job reports an error.
C14_SuccessHasUrl ==
  (result # NoResult /\ job.action \in MediaActions /\ result.status = "success")
     => result.download_url = "url" /\ handler.uploaded

\* C16: in every trim mode, when target_duration >= original_duration,
\* trim_video reports trimmed=False with the original duration, starts no
\* renderer and creates no output file, and the merge job goes on with the
\* original downloaded first clip.
C16_TrimNoOp ==
  (ret # NoRet /\ ret.fn = "trim_video"
     /\ first_clip_duration >= args.original_duration) =>
       /\ ~ret.trimmed /\ ret.duration = args.original_duration
       /\ ~ret.invoked /\ proc = NoProc
       /\ TrimmedPathOf(DlPath(1)) \notin files /\ trimmed_path = NoPath
       /\ pc = "scale"
       /\ downloaded_clips = <<DlPath(1), DlPath(2)>>
       /\ downloaded_paths = <<DlPath(1), DlPath(2)>>
       /\ files = {DlPath(1), DlPath(2)}

\* a target equal to the original duration, in mode both
C16_Witness ==
  /\ ret # NoRet /\ ret.fn = "trim_video"
  /\ args.trim_mode = "both"
  /\ first_clip_duration = args.original_duration
  /\ ~ret.trimmed /\ pc = "scale"

\* C17: in every trim mode and for every target_duration smaller than
\* original_duration, 0 <= start_time <= end_time <= original_duration and
\* end_time - start_time = target_duration; in mode both the head and the
\* tail lose the same amount.
C17_TrimRange ==
  (ret # NoRet /\ ret.fn = "trim_video"
     /\ first_clip_duration < args.original_duration) =>
       /\ ret.trimmed
       /\ 0 <= ret.start_time /\ ret.start_time <= ret.end_time
       /\ ret.end_time <= args.original_duration
       /\ ret.end_time - ret.start_time = first_clip_duration
       /\ ret.start_time + (args.original_duration - ret.end_time)
            = args.original_duration - first_clip_duration
       /\ args.trim_mode = "both" =>
            ret.start_time = args.original_duration - ret.end_time

\* C18: scale_video on a clip whose probed width and height equal the target
\* writes an output with the content of the input, does not start the
\* renderer and reports scaled=False; applied again to that output it gives
\* the same content.
C18_ScaleCopyIdempotent ==
  ret.fn = "scale_video" =>
    /\ \A k \in 1 .. Len(ret.runs) :
         (ret.runs[k].probed.width = args.target_width
            /\ ret.runs[k].probed.height = args.target_height) =>
              /\ ret.runs[k].success /\ ~ret.runs[k].scaled
              /\ ~ret.runs[k].invoked
              /\ ret.runs[k].output = ret.runs[k].input
    /\ \A k \in 2 .. Len(ret.runs) :
         (ret.runs[k - 1].probed.width = args.target_width
            /\ ret.runs[k - 1].probed.height = args.target_height
            /\ ret.runs[k].probed = ret.runs[k - 1].probed) =>
              /\ ret.runs[k].output = ret.runs[k - 1].output
              /\ ret.runs[k].output = ret.runs[k - 1].input

\* a clip at the target resolution went through scale_video twice
C18_Witness ==
  /\ ret.fn = "scale_video" /\ Len(ret.runs) = 2
  /\ args.video.width = args.target_width
  /\ args.video.height = args.target_height
  /\ ~ret.runs[1].scaled /\ ~ret.runs[2].scaled
  /\ ret.runs[2].output = args.video

\* C19: in a merge of n clips the text-hide rule is applied to
\* clip k if and only if k is the last clip; the last clip's text is visible
\* exactly while t < duration - 2.5 s, every other clip's text always.
C19_HideOnLastOnly ==
  ret.fn = "apply_overlays" =>
    \A k \in 1 .. Len(ret.filters) :
      /\ ret.filters[k].alpha <=> k = Len(args.durations)
      /\ \A t \in 0 .. MaxTime :
           Visible(ret.filters[k], t) <=>
             (k = Len(args.durations) => t < args.durations[k] - fade_out_duration)

\* the stages of the graph that consume the label, one entry per pad
Consumers(filters, name) ==
  {<<n, p>> \in (DOMAIN filters) \X (1 .. 2) :
     p \in DOMAIN filters[n].pads /\ filters[n].pads[p] = Label(name)}

\* C20: in the filter graph of every collage builder each output label is
\* defined by exactly one stage, every label but the final one is consumed by
\* exactly one later stage, no stage consumes a label that no earlier stage
\* defined, and the final stage's label is the one mapped to the output.
C20_LabelsChained ==
  ret.fn = "ffmpeg_command" =>
    LET filters == ret.filters
        last == Len(filters)
    IN  /\ \A a, b \in DOMAIN filters : filters[a].out = filters[b].out => a = b
        /\ \A a \in 1 .. last - 1 :
             /\ Cardinality(Consumers(filters, filters[a].out)) = 1
             /\ \A c \in Consumers(filters, filters[a].out) : c[1] > a
        /\ \A b \in DOMAIN filters : \A p \in DOMAIN filters[b].pads :
             ~filters[b].pads[p].stream =>
               \E a \in 1 .. b - 1 : filters[a].out = filters[b].pads[p].name
        /\ Consumers(filters, filters[last].out) = {}
        /\ filters[last].out = ret.map

\* the POV graph is complete and mapped; its first overlay draws the
\* third input, "landscape", on the base
C20_Witness ==
  /\ ret.fn = "ffmpeg_command"
  /\ args.layout = "pov"
  /\ Len(ret.filters) = 22
  /\ ret.filters[4].out = "img_landscape"
  /\ ret.filters[10].pads = <<Label("base0"), Label("img_landscape")>>
  /\ ret.map = "video_out"

NonWhitespace(text) == SelectSeq(text, LAMBDA c : c \notin Whitespace)

\* C23: the lines returned by the wrap function hold the non-whitespace
\* characters of the text, none dropped, duplicated or reordered, and so does
\* the joined text; empty input yields the empty string with 0 lines.
C23_WrapKeepsCharacters ==
  ret.fn = "wrap_text" =>
    /\ NonWhitespace(Flatten(ret.lines)) = NonWhitespace(args.text)
    /\ NonWhitespace(ret.text) = NonWhitespace(args.text)
    /\ ret.text = JoinLines(ret.lines)
    /\ \A k \in DOMAIN ret.lines : "LF" \notin SeqToSet(ret.lines[k])
    /\ args.text = <<>> => ret.text = <<>> /\ Len(ret.lines) = 0

\* a text of two words and a newline was wrapped onto two lines
C23_Witness ==
  /\ ret.fn = "wrap_text"
  /\ args.text = <<"a", "LF", " ", "b">>
  /\ args.font_size = 40 /\ args.max_width_px = 50
  /\ ret.text = <<"a", "LF", "b">>

\* the characters the sanitization contract keeps out of the text file
Unsafe == {"BACKTICK", "DOLLAR", "RSQUO", "LDQUO", "BOM", "ZWSP", "BEL", "CR", "TAB"}

\* C21: for every job action that renders caller-supplied text, the text
\* written to the text file has no backtick, dollar sign, smart quotation
\* mark, byte-order mark, zero-width, format or control character other than
\* newline.
C21_TextFileSanitized ==
  ret.fn = "render_text" /\ ~ret.rejected =>
    \A k \in DOMAIN ret.file : ret.file[k] \notin Unsafe

C25_DrawsInMetadata ==
  ret.fn = "create_og_video" =>
    \A field \in DOMAIN ret.drawn :
      /\ field \in DOMAIN ret.metadata
      /\ ret.metadata[field] = ret.drawn[field]

\* the end of the output video in ticks, times 100 - slowdown_percent: the
\* timestamps of the input are multiplied by 1 / (1 - slowdown_percent / 100)
OutputEndScaled == args.duration * 100

\* C29: the position expression of N waypoints evaluates at t >= 0 to the
\* coordinate of waypoint min(floor(t / I), N - 1), and the logo takes a new
\* waypoint at every multiple of I up to the end of the output video.
C29_WaypointEveryInterval ==
  ret.fn = "create_og_video" =>
    LET positions == ret.drawn.positions
        N == Len(positions)
        I == POSITION_CHANGE_INTERVAL * TicksPerSecond
        Index(t) == IF t \div I < N - 1 THEN t \div I ELSE N - 1
    IN  /\ \A t \in 0 .. 2 * MaxVideoTicks :
             /\ Eval(ret.x_expr, t) = positions[Index(t) + 1][1]
             /\ Eval(ret.y_expr, t) = positions[Index(t) + 1][2]
        /\ \A k \in 1 .. MaxVideoTicks :
             k * I * (100 - ret.drawn.slowdown_percent) < OutputEndScaled
               => Index(k * I) = k

\* C26: however many overlay or template jobs have run, the process holds at
\* most one connection pool and at most 10 open database connections; a
\* template lookup creates no pool and leaves no extra connection open.
C26_OnePool ==
  /\ Len(pools) <= 1
  /\ OpenConnections(pools) <= MAXCONN

\* the files a step removes from the temp directory
Removed == files \ files'

\* one step of a job in which nothing has failed: which files it may remove,
\* and what must exist when it does
CleanupStep ==
  (pc' # "failed" /\ \A n \in DOMAIN dl' : dl'[n].st # "failed") =>
    /\ \A f \in Removed :
         \/ /\ f.kind = "dl"
            /\ pc = "trim" /\ pc' = "scale"
            /\ f = DlPath(1)
            /\ TrimmedPathOf(f) \in files'
         \/ /\ f.kind \in {"dl", "trimmed"}
            /\ pc = "scale" /\ pc' = "overlay"
            /\ \A n \in 1 .. Len(clip_configs) : ScaledPath(n) \in files'
         \/ /\ f.kind = "scaled"
            /\ pc = "overlay" /\ pc' = "merge"
            /\ \A n \in 1 .. Len(clip_configs) : OverlayedPath(n) \in files'
         \/ /\ f.kind = "overlayed"
            /\ pc = "merge" /\ pc' = "done"
            /\ OutputPath \in files'
    /\ (pc = "scale" /\ pc' = "overlay") =>
         {f \in files' : f.kind \in {"dl", "trimmed"}} = {}
    /\ (pc = "overlay" /\ pc' = "merge") =>
         {f \in files' : f.kind = "scaled"} = {}
    /\ (pc = "merge" /\ pc' = "done") =>
         {f \in files' : f.kind = "overlayed"} = {}
    /\ (proc'.kind = "trim" /\ proc.kind # "trim") => DlPath(1) \in files
    /\ (proc'.kind = "scale" /\ proc.kind # "scale") => downloaded_clips[i] \in files
    /\ (proc'.kind = "overlay" /\ proc.kind # "overlay") => scaled_paths[i] \in files
    /\ (proc'.kind = "merge" /\ proc.kind # "merge") =>
         \A n \in 1 .. Len(clip_configs) : OverlayedPath(n) \in files

\* C27: on the success path of process_merge_request the untrimmed first clip
\* is deleted only once the trimmed replacement exists, the downloaded
\* originals after scaling and before overlaying, the scaled clips after
\* overlaying and before merging, the overlayed clips after merging and before
\* the result is returned; no file is deleted while a stage that reads it is
\* still to finish.
C27_DeletedAfterUse == [][CleanupStep]_vars

\* a job of two clips with a trimmed first clip has returned its result
C27_Witness ==
  /\ pc = "done"
  /\ Len(clip_configs) = 2
  /\ trimmed_path = TrimmedPathOf(DlPath(1))
  /\ files = {OutputPath}

\* the overlay stages of a list of filters, in the order of the list
Overlays(filters) == SelectSeq(filters, LAMBDA st : st.filter = "overlay")

\* the stage of the list that writes the label a pad names
Producer(filters, pad) ==
  CHOOSE n \in DOMAIN filters : filters[n].out = pad.name

\* the input of a command a stream pad "[n:v]" names
InputOf(inputs, pad) ==
  inputs[(CHOOSE n \in 0 .. Len(inputs) - 1 : Stream(n) = pad) + 1]

\* C28: for the pov, outfit-single and fitpic layouts the overlay chain has one
\* overlay stage per slot, in the order of OVERLAY_ORDER, each drawing on the
\* output of the one before; the image overlaid at a slot's position is scaled
\* to the slot's size and is the file downloaded from the URL the request gave
\* for the slot's key; OVERLAY_ORDER is a permutation of INPUT_ORDER.
C28_SlotShowsItsImage ==
  (args.fn = "collage" /\ ret # NoRet /\ ret.fn = "ffmpeg_command") =>
    LET order == OVERLAY_ORDER(args.layout)
        slots == SLOT_LAYOUT(args.layout)
        overlays == Overlays(ret.filters)
    IN  /\ Len(overlays) = Cardinality(DOMAIN slots)
        /\ Len(order) = Len(INPUT_ORDER(args.layout))
        /\ {order[n] : n \in DOMAIN order} = DOMAIN slots
        /\ {INPUT_ORDER(args.layout)[n] : n \in DOMAIN order} = DOMAIN slots
        /\ \A n \in DOMAIN overlays :
             LET scaled == ret.filters[Producer(ret.filters, overlays[n].pads[2])]
             IN  /\ overlays[n].arg = slots[order[n]].pos
                 /\ n > 1 => overlays[n].pads[1] = Label(overlays[n - 1].out)
                 /\ scaled.filter = "scale,crop,setsar"
                 /\ scaled.arg = slots[order[n]].size
                 /\ scaled.pads[1].stream
                 /\ \E m \in 1 .. Len(ret.inputs) - 1 : Stream(m) = scaled.pads[1]
                 /\ InputOf(ret.inputs, scaled.pads[1]) \in files
                 /\ content[InputOf(ret.inputs, scaled.pads[1])]
                      = args.images[order[n]]

\* the command of a pov job whose eight slots have eight different URLs,
\* the last download to end being the one of the first slot
C28_Witness ==
  /\ args.fn = "collage" /\ args.layout = "pov"
  /\ args.images["cap"] = "u_cap"
  /\ ret # NoRet /\ ret.fn = "ffmpeg_command"
  /\ Len(Overlays(ret.filters)) = 8
  /\ content[ret.inputs[4]] = "u_landscape"

=============================================================================
